---- MODULE Spec2Model ----
(***************************************************************************)
(* Corpus2DNALLM: the genome corpus sampler.                               *)
(*                                                                         *)
(* Eleven independent state machines share this module:                    *)
(*   SpecSplit   GenomeObj.split_sequence          (1_Prepare_corpus.py)   *)
(*               (SpecSplitFair: the same, the loop running on)            *)
(*   SpecSample  the sampling loop of get_SplitHardMask / get_SplitUnMask  *)
(*   SpecPlan    judge_and_generate and the packaged planners              *)
(*   SpecWrite   process_unmasked_genome / process_masked_genome           *)
(*   SpecCorpus  main / prepare_genome_corpus, the loop over the genomes   *)
(*   SpecSizes   write_genome_sizes                                        *)
(*   SpecCli     cli.main and run_all                                      *)
(*   SpecFiles   check_genome_files, the file resolvers, split file names  *)
(*   SpecMask    split_hardmask_genome on one masked file                  *)
(*   SpecJudge   judge_and_generate and its getters at genome scale        *)
(*   SpecTok     update_tokenizer_files, generate_all_config_files         *)
(* Each specification moves its own variables and leaves the others idle.  *)
(***************************************************************************)
EXTENDS Integers, Sequences, FiniteSets, TLC

VARIABLES
    \* ---- split_sequence ----
    sequence,       \* the input string, a sequence of one-character strings
    min_length,     \* parameter min_length
    max_length,     \* parameter max_length
    s,              \* the cursor
    seqlist,        \* the accepted chunks, in order
    taken,          \* history: every slice the loop took, accepted or not
    spc,            \* "idle" | "loop" | "returned"
    \* ---- sampling loop ----
    chunks,         \* lengths of the candidate chunks (seqlist of the sampler)
    total_len,      \* the target, in bytes
    perm,           \* the shuffled index list as np.random.shuffle left it
    randomlist,     \* what is left of it
    used,           \* set of indices already selected
    sllength,       \* running total of selected lengths
    outlist,        \* selected indices, in order of selection
    mpc,            \* "idle" | "loop" | "returned" | "IndexError"
    \* ---- budget planners ----
    impl,           \* "script" (1_Prepare_corpus.py) | "package" (corpus_prep.py)
    genome_type,    \* "both" | "unmasked"
    unmasked_mb,    \* UnMask_genome_size / genome_size_mb
    masked_mb,      \* SplitMask_genome_size, or "none"
    split_size,     \* split_size / genome_split_size, in MB
    masked_file,    \* package: find_split_mask_file found a file
    calls,          \* the draws the planner made, in order
    ppc,            \* "idle" | "call" | "returned" | "TypeError"
    \* ---- packaged writers ----
    writer,         \* "unmasked" (process_unmasked_genome) | "masked"
    texts,          \* the FASTA records / the stripped lines, run-length encoded
    records,        \* their lengths
    wmax_length,    \* parameter max_length
    max_mb,         \* parameter max_mb, "None" when absent
    total_chars,    \* running total of characters written
    written,        \* lengths of the lines written to outfile, in order
    lines,          \* the lines written to outfile, run-length encoded
    rec,            \* index of the record being processed
    off,            \* i, the offset of the inner loop in that record
    wpc,            \* "idle" | "loop" | "returned"
    \* ---- corpus stage: the loop over the genomes ----
    cimpl,          \* "script" (main) | "package" (prepare_genome_corpus)
    genomes,        \* the metadata table: one record per genome, in order
    size_index,     \* df.index of the size table: the genomes of its rows, in its order
    gi,             \* position of the loop in the table it walks
    pending,        \* package: the writer calls the genome still has to make
    total_seq_list, \* script: the lines collected for the genome, not yet written
    outlines,       \* the corpus file: [genome, source] of each line, in order
    cwarnings,      \* the genomes a warning was printed for
    metadata_ok,    \* pd.read_csv parses the metadata table
    size_ok,        \* pd.read_csv parses the size table
    outfile,        \* the corpus file: "untouched" | "open" | "closed"
    cpc,            \* "idle" | "start" | "next" | "calls" | "write" | "done" | an exception
    \* ---- size-statistics stage: write_genome_sizes ----
    zimpl,          \* "script" (0_Prepare_GenomeSizeFile.py) | "package" (genome_size.py)
    fasta_status,   \* per genome of the metadata table: "ok" | "missing" | "unreadable" | "badstats"
    zmetadata_ok,   \* pd.read_csv parses the metadata table
    zi,             \* position of the loop in the table
    fasta_file,     \* the local fasta_file: the genome whose file it names, 0 when None / unbound
    header,         \* genome_sizes.txt was opened with 'w' and holds the header
    rows,           \* the rows of genome_sizes.txt: [genome, file], in order
    zwarnings,      \* the genomes a warning or error line was printed for
    zpc,            \* "idle" | "start" | "loop" | "returned" | an exception
    \* ---- command line: cli.main and run_all ----
    command,        \* args.command, "none" when absent
    check_ok,       \* what check_genome_files returns
    genome_raises,  \* run_prepare_genome raises an exception
    corpus_raises,  \* prepare_genome_corpus raises an exception
    train_ok,       \* what train_sentencepiece_model returns
    config_ok,      \* what generate_all_config_files returns
    stages,         \* the stage functions entered, in order
    reported,       \* run_all printed its completion message
    exit_code,      \* status of the process once it ended, NoneMb before
    lpc,            \* "idle" | "main" | "corpus" | "train" | "config" | "exited"
    \* ---- genome files: check_genome_files, the resolvers, split_hardmask_genome ----
    fimpl,          \* "script" (0_Prepare_GenomeSizeFile.py, 1_Prepare_corpus.py) | "package"
    table,          \* the metadata table: [name, genome_type] per row, names as written
    genome_size_mb, \* per row of the table: sum_len / (1024 * 1024) of genome_sizes.txt
    masked_dir,     \* os.listdir(masked_dir): the file names
    unmasked_dir,   \* os.listdir(unmasked_dir): the file names
    FLAG,           \* what check_genome_files returned
    fi,             \* position of the running loop in the table
    cur_fasta,      \* write_genome_sizes: the local fasta_file, NoFile when None / unbound
    sizes_out,      \* genome_sizes.txt: "absent" | "written"
    size_rows,      \* the rows of genome_sizes.txt: [genome, file], in order
    split_ran,      \* split_hardmask_genome was entered
    split_out,      \* the file names split_hardmask_genome wrote into hardmask_split
    found_unmasked, \* corpus stage: [genome, file] per genome, the unmasked file resolved
    found_split,    \* corpus stage: [genome, file] per split-file lookup made
    fpc,  \* "idle" | "check" | "sizes" | "rows" | "split" | "lookup" | "done" | "refused" | an exception
    \* ---- hard-mask splitting: split_hardmask_genome on one file ----
    fa,             \* the records of the masked file, as the file spells them
    seq_no,         \* position of the loop "for seq in fa"
    hseqlist,       \* seqlist: what re.split returned for the current record
    piece_no,       \* position of the loop "for seq_in_list in seqlist"
    outio,          \* the lines printed to the output: [record, line], in order
    hpc,  \* "idle" | "record" | "pieces" | "closed"
    \* ---- script corpus stage at genome scale: judge_and_generate and its getters ----
    jgenome,        \* the genome: [genome_type, unmasked (records), masked (lines of the split file)]
    jsplit_size,    \* split_size, in MB
    jcalls,         \* the getter calls judge_and_generate still has to make
    getter,         \* the getter running: [fn, arg], arg its total_len
    allseqlen,      \* total length of the getter's seqlist, NoneMb before it is built
    jpc,  \* "idle" | "judge" | "calls" | "sample" | "returned" | an exception
    \* ---- tokenizer files: update_tokenizer_files ----
    vocab,          \* vocab.json: its tokens, in file order
    special_token_file, \* the special-token file: its [content, id] pairs in order, <<>> when absent
    special_token,  \* the special tokens in use: [content, id] pairs in order
    added_tokens_decoder, \* tokenizer_config.json: [key, content] per entry
    added_tokens,   \* tokenizer.json: [id, content] per entry
    vocab_info,     \* tokenizer.json model.vocab: token -> id
    written_files,  \* the output files written
    tpc             \* "idle" | "load" | "decoder" | "added" | "vocab" | "write" | "written"

splitVars  == <<sequence, min_length, max_length, s, seqlist, taken, spc>>
sampleVars == <<chunks, total_len, perm, randomlist, used, sllength, outlist, mpc>>
planVars   == <<impl, genome_type, unmasked_mb, masked_mb, split_size, masked_file,
                calls, ppc>>
writeVars  == <<writer, texts, records, wmax_length, max_mb, total_chars, written,
                lines, rec, off, wpc>>
corpusVars == <<cimpl, genomes, size_index, metadata_ok, size_ok, gi, pending, total_seq_list,
                outlines, cwarnings, outfile, cpc>>
sizesVars  == <<zimpl, fasta_status, zmetadata_ok, zi, fasta_file, header, rows,
                zwarnings, zpc>>
cliVars    == <<command, check_ok, genome_raises, corpus_raises, train_ok, config_ok, stages, reported,
                exit_code, lpc>>
filesVars  == <<fimpl, table, genome_size_mb, masked_dir, unmasked_dir, FLAG, fi, cur_fasta, sizes_out,
                size_rows, split_ran, split_out, found_unmasked, found_split, fpc>>
maskVars   == <<fa, seq_no, hseqlist, piece_no, outio, hpc>>
judgeVars  == <<jgenome, jsplit_size, jcalls, getter, allseqlen, jpc>>
tokVars    == <<vocab, special_token_file, special_token, added_tokens_decoder,
                added_tokens, vocab_info, written_files, tpc>>
vars       == <<splitVars, sampleVars, planVars, writeVars,
                corpusVars,
                sizesVars,
                cliVars,
                filesVars,
                maskVars,
                judgeVars,
                tokVars>>

Min(a, b) == IF a <= b THEN a ELSE b

RECURSIVE SumSeq(_)
SumSeq(q) == IF q = <<>> THEN 0 ELSE q[1] + SumSeq(Tail(q))

SplitIdle ==
    /\ sequence = <<>> /\ min_length = 0 /\ max_length = 0 /\ s = 0
    /\ seqlist = <<>> /\ taken = <<>> /\ spc = "idle"

SampleIdle ==
    /\ chunks = <<>> /\ total_len = 0 /\ perm = <<>> /\ randomlist = <<>>
    /\ used = {} /\ sllength = 0 /\ outlist = <<>> /\ mpc = "idle"

PlanIdle ==
    /\ impl = "none" /\ genome_type = "none" /\ unmasked_mb = 0 /\ masked_mb = "none"
    /\ split_size = 0 /\ masked_file = FALSE /\ calls = <<>> /\ ppc = "idle"

WriteIdle ==
    /\ writer = "none" /\ records = <<>> /\ wmax_length = 0 /\ max_mb = "None"
    /\ total_chars = 0 /\ written = <<>> /\ rec = 0 /\ off = 0 /\ wpc = "idle"
    /\ texts = <<>> /\ lines = <<>>

CorpusIdle ==
    /\ cimpl = "none" /\ genomes = <<>> /\ size_index = <<>> /\ gi = 0
    /\ pending = <<>>
    /\ total_seq_list = <<>> /\ outlines = <<>> /\ cwarnings = {} /\ cpc = "idle"
    /\ metadata_ok = TRUE /\ size_ok = TRUE /\ outfile = "untouched"

SizesIdle ==
    /\ zimpl = "none" /\ fasta_status = <<>> /\ zmetadata_ok = TRUE /\ zi = 0
    /\ fasta_file = 0 /\ header = FALSE /\ rows = <<>> /\ zwarnings = {}
    /\ zpc = "idle"

CliIdle ==
    /\ command = "none" /\ check_ok = FALSE /\ genome_raises = FALSE
    /\ corpus_raises = FALSE
    /\ train_ok = FALSE /\ config_ok = FALSE /\ stages = <<>> /\ reported = FALSE
    /\ exit_code = 0 /\ lpc = "idle"

FilesIdle ==
    /\ fimpl = "none" /\ table = <<>> /\ genome_size_mb = <<>>
    /\ masked_dir = {} /\ unmasked_dir = {}
    /\ FLAG = FALSE /\ fi = 0 /\ cur_fasta = "" /\ sizes_out = "absent"
    /\ size_rows = <<>> /\ split_ran = FALSE /\ split_out = {}
    /\ found_unmasked = <<>> /\ found_split = <<>> /\ fpc = "idle"

MaskIdle ==
    /\ fa = <<>> /\ seq_no = 0 /\ hseqlist = <<>> /\ piece_no = 0
    /\ outio = <<>> /\ hpc = "idle"

JudgeIdle ==
    /\ jgenome = <<>> /\ jsplit_size = 0 /\ jcalls = <<>> /\ getter = <<>>
    /\ allseqlen = 0 /\ jpc = "idle"

TokIdle ==
    /\ vocab = <<>> /\ special_token_file = <<>> /\ special_token = <<>>
    /\ added_tokens_decoder = <<>> /\ added_tokens = <<>> /\ vocab_info = <<>>
    /\ written_files = {} /\ tpc = "idle"

(***************************************************************************)
(* split_sequence                                                          *)
(***************************************************************************)

\* Bounds of the splitter's inputs.
MaxSeqLen == 6
MaxMinLength == 2
MaxMaxLength == 5

\* The characters of an input: two valid bases, the unknown base N, and one
\* character outside the accepted alphabet (an IUPAC code, a lowercase base).
Chars == {"A", "N", "R"}

ValidBases == {"A", "C", "G", "T", "N"}

SeqsUpTo(S, n) == UNION {[1..k -> S] : k \in 0..n}

\* Python's sequence[a:b] for 0 <= a <= b.
Slice(q, a, b) == SubSeq(q, a + 1, Min(b, Len(q)))

NCount(subseq) == Cardinality({i \in 1..Len(subseq) : subseq[i] = "N"})

AcceptIgnoringN(subseq, minlen) ==
    /\ Len(subseq) >= minlen
    /\ \A i \in 1..Len(subseq) : subseq[i] \in ValidBases

AcceptIgnoringLength(subseq, minlen) ==
    /\ \A i \in 1..Len(subseq) : subseq[i] \in ValidBases
    /\ ~(NCount(subseq) * 5 > Len(subseq))

\* The filter of lines 178-188: long enough, no invalid character, and not
\* N_count / len(subseq) > 0.2.
Accept(subseq, minlen) ==
    /\ Len(subseq) >= minlen
    /\ \A i \in 1..Len(subseq) : subseq[i] \in ValidBases
    /\ ~(NCount(subseq) * 5 > Len(subseq))

AdvanceByMax(cur, sublen, maxlen) == cur + maxlen

\* The loop without its cursor update.
AdvanceNowhere(cur, sublen, maxlen) == cur

\* s += max_length (a = 0, where sublen = max_length) or s += sublen (a = 1).
Advance(cur, sublen, maxlen) == cur + sublen

SplitInit ==
    /\ SampleIdle /\ PlanIdle /\ WriteIdle /\ CorpusIdle /\ SizesIdle /\ CliIdle /\ FilesIdle /\ MaskIdle /\ JudgeIdle /\ TokIdle
    /\ sequence \in SeqsUpTo(Chars, MaxSeqLen)
    /\ min_length \in 1..MaxMinLength
    /\ max_length \in min_length..MaxMaxLength
    /\ s = 0
    /\ seqlist = <<>>
    /\ taken = <<>>
    /\ spc = "loop"

\* One iteration of the while loop taking sublen characters.
SplitTake(sublen) ==
    LET subseq == Slice(sequence, s, s + sublen)
        ok == Accept(subseq, min_length)
    IN  /\ spc = "loop"
        /\ s < Len(sequence)
        /\ s' = Advance(s, sublen, max_length)
        /\ seqlist' = IF ok THEN Append(seqlist, subseq) ELSE seqlist
        /\ taken' = Append(taken, [start |-> s,
                                   stop |-> Min(s + sublen, Len(sequence)),
                                   kept |-> ok])
        /\ UNCHANGED <<sequence, min_length, max_length, spc>>
        /\ UNCHANGED <<sampleVars, planVars, writeVars, corpusVars, sizesVars, cliVars, filesVars, maskVars, judgeVars, tokVars>>

\* a = randint(0, 1) gave 0.
SplitTakeMax == SplitTake(max_length)

\* a = 1: sublen = randint(min_length, max_length).
SplitTakeRandom == \E sublen \in min_length..max_length : SplitTake(sublen)

\* The loop condition s < n fails: return seqlist.
SplitReturn ==
    /\ spc = "loop"
    /\ ~(s < Len(sequence))
    /\ spc' = "returned"
    /\ UNCHANGED <<sequence, min_length, max_length, s, seqlist, taken>>
    /\ UNCHANGED <<sampleVars, planVars, writeVars, corpusVars, sizesVars, cliVars, filesVars, maskVars, judgeVars, tokVars>>

SplitNext ==
    \/ SplitTakeMax
    \/ SplitTakeRandom
    \/ SplitReturn

SpecSplit == SplitInit /\ [][SplitNext]_vars

\* A call that has begun keeps running: the next iteration of the loop, or
\* the return, is taken.
SpecSplitFair == SplitInit /\ [][SplitNext]_vars /\ WF_vars(SplitNext)

\* The chunks of seqlist are exactly the kept slices, in order.
RECURSIVE KeptSlices(_, _)
KeptSlices(q, hist) ==
    IF hist = <<>> THEN <<>>
    ELSE LET h == hist[1]
             rest == KeptSlices(q, Tail(hist))
         IN  IF h.kept THEN <<SubSeq(q, h.start + 1, h.stop)>> \o rest ELSE rest

\* C1: every chunk split_sequence has accepted is between min_length and
\* max_length characters long, is made of A, C, G, T, N only, and has at most
\* one N in five characters (N count / length <= 0.2).
C1_ChunksWellFormed ==
    \A i \in 1..Len(seqlist) :
        /\ min_length <= Len(seqlist[i])
        /\ Len(seqlist[i]) <= max_length
        /\ \A k \in 1..Len(seqlist[i]) : seqlist[i][k] \in {"A", "C", "G", "T", "N"}
        /\ NCount(seqlist[i]) * 5 <= Len(seqlist[i])

\* A finished split that kept a chunk holding an N at exactly the 0.2 limit
\* and dropped another slice.
C1_Witness ==
    /\ spc = "returned"
    /\ \E i \in 1..Len(seqlist) :
           NCount(seqlist[i]) = 1 /\ Len(seqlist[i]) = 5
    /\ \E j \in 1..Len(taken) : ~taken[j].kept

\* C2: the slices taken start at 0, each starts where the one before ended,
\* none is empty, the cursor is never behind the last slice and equals its
\* end until it passes the end of the sequence, a finished split has covered
\* the whole sequence, and the returned chunks are exactly the kept slices
\* (so no returned chunk overlaps another and no rejected region is split again).
C2_SlicesTileSequence ==
    /\ taken = <<>> => s = 0
    /\ taken # <<>> =>
           /\ taken[1].start = 0
           /\ s >= taken[Len(taken)].stop
           /\ s < Len(sequence) => s = taken[Len(taken)].stop
    /\ \A i \in 1..Len(taken) :
           /\ taken[i].start < taken[i].stop
           /\ taken[i].stop <= Len(sequence)
           /\ i > 1 => taken[i].start = taken[i - 1].stop
    /\ spc = "returned" =>
           IF taken = <<>> THEN Len(sequence) = 0
           ELSE taken[Len(taken)].stop = Len(sequence)
    /\ seqlist = KeptSlices(sequence, taken)

\* A finished split of three or more slices with a rejected slice followed
\* by an accepted one.
C2_Witness ==
    /\ spc = "returned"
    /\ Len(taken) >= 3
    /\ \E j \in 2..Len(taken) : ~taken[j - 1].kept /\ taken[j].kept

\* C18: a sequence shorter than min_length yields no chunk, and a slice
\* shorter than min_length (the truncated last slice of a sequence) is never
\* kept.
C18_ShortSlicesDropped ==
    /\ Len(sequence) < min_length => seqlist = <<>>
    /\ \A i \in 1..Len(taken) :
           taken[i].stop - taken[i].start < min_length => ~taken[i].kept

\* A finished split of valid bases that kept its first slice and dropped
\* the truncated last one, which is shorter than min_length.
C18_Witness ==
    /\ spc = "returned"
    /\ \A k \in 1..Len(sequence) : sequence[k] = "A"
    /\ Len(taken) >= 2
    /\ taken[1].kept
    /\ ~taken[Len(taken)].kept
    /\ taken[Len(taken)].stop - taken[Len(taken)].start < min_length

(***************************************************************************)
(* The sampling loop of get_SplitHardMask and get_SplitUnMask              *)
(***************************************************************************)

\* Bounds of the sampler's inputs.
MaxChunks == 3
MaxChunkLen == 7
MaxTarget == 16

\* split_sequence is called with its default min_length.
MinChunkLen == 5

\* np.arange(listlen) shuffled: every ordering of 0..listlen-1.
Shuffled(n) ==
    {p \in [1..n -> 0..(n - 1)] : \A i, j \in 1..n : i # j => p[i] # p[j]}

KeepSamplingInclusive(sl, target) == sl <= target

\* The loop condition, while sllength < total_len.
KeepSampling(sl, target) == sl < target

SampleInit ==
    /\ SplitIdle /\ PlanIdle /\ WriteIdle /\ CorpusIdle /\ SizesIdle /\ CliIdle /\ FilesIdle /\ MaskIdle /\ JudgeIdle /\ TokIdle
    /\ chunks \in SeqsUpTo(MinChunkLen..MaxChunkLen, MaxChunks)
    /\ total_len \in 0..MaxTarget
    /\ perm \in Shuffled(Len(chunks))
    /\ randomlist = perm
    /\ used = {}
    /\ sllength = 0
    /\ outlist = <<>>
    /\ mpc = "loop"

\* The index drawn on every iteration comes from anywhere in 0..listlen-1 and
\* is taken whether or not it was taken before.
SamplePopWithReplacement ==
    /\ mpc = "loop"
    /\ KeepSampling(sllength, total_len)
    /\ randomlist # <<>>
    /\ \E a \in 0..(Len(chunks) - 1) :
           /\ randomlist' = SubSeq(randomlist, 1, Len(randomlist) - 1)
           /\ outlist' = Append(outlist, a)
           /\ sllength' = sllength + chunks[a + 1]
           /\ used' = used \cup {a}
    /\ UNCHANGED <<chunks, total_len, perm, mpc>>
    /\ UNCHANGED <<splitVars, planVars, writeVars, corpusVars, sizesVars, cliVars, filesVars, maskVars, judgeVars, tokVars>>

\* One iteration: a = randomlist.pop(); skip a used index, else select it.
SamplePop ==
    /\ mpc = "loop"
    /\ KeepSampling(sllength, total_len)
    /\ randomlist # <<>>
    /\ LET a == randomlist[Len(randomlist)]
       IN  /\ randomlist' = SubSeq(randomlist, 1, Len(randomlist) - 1)
           /\ IF a \in used
              THEN UNCHANGED <<outlist, sllength, used>>
              ELSE /\ outlist' = Append(outlist, a)
                   /\ sllength' = sllength + chunks[a + 1]
                   /\ used' = used \cup {a}
    /\ UNCHANGED <<chunks, total_len, perm, mpc>>
    /\ UNCHANGED <<splitVars, planVars, writeVars, corpusVars, sizesVars, cliVars, filesVars, maskVars, judgeVars, tokVars>>

\* randomlist.pop() on the empty list raises IndexError.
SamplePopEmpty ==
    /\ mpc = "loop"
    /\ KeepSampling(sllength, total_len)
    /\ randomlist = <<>>
    /\ mpc' = "IndexError"
    /\ UNCHANGED <<chunks, total_len, perm, randomlist, used, sllength, outlist>>
    /\ UNCHANGED <<splitVars, planVars, writeVars, corpusVars, sizesVars, cliVars, filesVars, maskVars, judgeVars, tokVars>>

\* The loop condition fails: return outlist.
SampleReturn ==
    /\ mpc = "loop"
    /\ ~KeepSampling(sllength, total_len)
    /\ mpc' = "returned"
    /\ UNCHANGED <<chunks, total_len, perm, randomlist, used, sllength, outlist>>
    /\ UNCHANGED <<splitVars, planVars, writeVars, corpusVars, sizesVars, cliVars, filesVars, maskVars, judgeVars, tokVars>>

SampleNext ==
    \/ SamplePop
    \/ SamplePopEmpty
    \/ SampleReturn

SpecSample == SampleInit /\ [][SampleNext]_vars

\* Total length of the first k selected chunks.
SelectedLen(k) == SumSeq([i \in 1..k |-> chunks[outlist[i] + 1]])

\* C3: the indices selected within one call are pairwise distinct.
C3_NoIndexTwice ==
    \A i, j \in 1..Len(outlist) : i # j => outlist[i] # outlist[j]

\* A returned sample of at least two chunks out of a longer candidate list.
C3_Witness ==
    /\ mpc = "returned"
    /\ Len(outlist) >= 2
    /\ Len(chunks) > Len(outlist)

\* C4: on return the selection is the permutation consumed from its end, its
\* total length reaches the target, and no shorter prefix of it does: the
\* total without the last selected chunk is below the target.
C4_SmallestPrefix ==
    mpc = "returned" =>
        /\ Len(outlist) <= Len(perm)
        /\ \A k \in 1..Len(outlist) : outlist[k] = perm[Len(perm) - k + 1]
        /\ sllength = SelectedLen(Len(outlist))
        /\ SelectedLen(Len(outlist)) >= total_len
        /\ \A k \in 0..(Len(outlist) - 1) : SelectedLen(k) < total_len

\* A return where the total lands exactly on the target after two chunks.
C4_Witness ==
    /\ mpc = "returned"
    /\ Len(outlist) = 2
    /\ sllength = total_len
    /\ Len(chunks) = 3

(***************************************************************************)
(* Budget planners: GenomeObj.judge_and_generate (script) and              *)
(* process_both_types / process_unmasked_only (package)                    *)
(***************************************************************************)

\* Inputs of the planners, in MB.
SplitSizesMB == {100, 500, 1000}
UnmaskedSizesMB == {60, 100, 400, 500, 800, 1200}
MaskedSizesMB == {0, 40, 250, 300, 600}

\* The script counts decimal megabytes (/ 1000000, * 1e6), the package
\* binary ones (/ (1024 * 1024), * 1024 * 1024).
ScriptBytesPerMB == 1000000
PackageBytesPerMB == 1048576

\* The masked cap process_both_types passes, whatever genome_split_size is.
PackageMaskedCapMB == 250
PackageUnmaskedCapMB == 250

\* An absent argument (max_mb=None, or a call that takes no limit).
NoneMb == 0 - 1

Call(fn, arg) == [fn |-> fn, arg |-> arg]

\* GenomeObj.__init__ leaves SplitMask_genome_size the string 'none' for
\* every genome whose type is not 'both'.
SplitMaskSizeIsStr(gtype) == gtype # "both"

\* GenomeObj.__init__ keeps the two sizes as round(length / 1000000, 2): a
\* size is a whole number of hundredths of a MB.
SizeScale == 100

\* judge_and_generate: the calls it makes and how it ends.  The comparison
\* of the string 'none' with split_size / 2 raises TypeError.  The sizes um
\* and mm are in hundredths of a MB, split is in MB.
judge_and_generate(gtype, um, mm, split) ==
    IF um <= SizeScale * split
    THEN [calls |-> <<Call("get_all_UnMask", NoneMb)>>, pc |-> "returned"]
    ELSE LET max_genome_size == (split * ScriptBytesPerMB) \div 2
         IN  IF SplitMaskSizeIsStr(gtype)
             THEN [calls |-> <<>>, pc |-> "TypeError"]
             ELSE IF 2 * mm >= SizeScale * split
                  THEN [calls |-> <<Call("get_SplitHardMask", max_genome_size),
                                    Call("get_SplitUnMask", max_genome_size)>>,
                        pc |-> "returned"]
                  ELSE [calls |-> <<Call("get_all_HardMask", NoneMb),
                                    Call("get_SplitUnMask", max_genome_size)>>,
                        pc |-> "returned"]

\* The getters that draw chunks until total_len is reached.
SamplingGetters == {"get_SplitHardMask", "get_SplitUnMask"}

\* How the calls of a plan can end.  Every getter runs inside
\* judge_and_generate; a sampling getter whose seqlist totals less than
\* total_len empties randomlist and randomlist.pop() raises IndexError: the
\* calls after it are not made.  What split_sequence keeps depends on the
\* file's characters and on random.randint, which the script does not seed.
SamplerOutcomes(plan) ==
    IF plan.pc # "returned" THEN {plan}
    ELSE {plan} \cup
         {[calls |-> SubSeq(plan.calls, 1, k), pc |-> "IndexError"] :
             k \in {i \in DOMAIN plan.calls : plan.calls[i].fn \in SamplingGetters}}

\* process_both_types: a missing masked file is a warning, not an error.
process_both_types(um, split, found) ==
    IF um < split
    THEN [calls |-> <<Call("process_unmasked_genome", NoneMb)>>, pc |-> "returned"]
    ELSE [calls |->
            (IF found THEN <<Call("process_masked_genome", PackageMaskedCapMB)>>
                      ELSE <<>>)
            \o <<Call("process_unmasked_genome", PackageUnmaskedCapMB)>>,
          pc |-> "returned"]

process_unmasked_only(um, split) ==
    IF um < split
    THEN [calls |-> <<Call("process_unmasked_genome", NoneMb)>>, pc |-> "returned"]
    ELSE [calls |-> <<Call("process_unmasked_genome", split)>>, pc |-> "returned"]

PlanInit ==
    /\ SplitIdle /\ SampleIdle /\ WriteIdle /\ CorpusIdle /\ SizesIdle /\ CliIdle /\ FilesIdle /\ MaskIdle /\ JudgeIdle /\ TokIdle
    /\ impl \in {"script", "package"}
    /\ genome_type \in {"both", "unmasked"}
    /\ unmasked_mb \in UnmaskedSizesMB
    /\ split_size \in SplitSizesMB
    /\ masked_mb \in (IF genome_type = "both" THEN MaskedSizesMB ELSE {0})
    /\ masked_file \in (IF genome_type = "both" /\ impl = "package"
                        THEN BOOLEAN ELSE {genome_type = "both"})
    /\ calls = <<>>
    /\ ppc = "call"

\* main: Genome.judge_and_generate(split_size, max_length).
JudgeAndGenerate ==
    /\ ppc = "call" /\ impl = "script"
    /\ \E r \in SamplerOutcomes(judge_and_generate(genome_type, SizeScale * unmasked_mb,
                                                  SizeScale * masked_mb, split_size)) :
        calls' = r.calls /\ ppc' = r.pc
    /\ UNCHANGED <<impl, genome_type, unmasked_mb, masked_mb, split_size, masked_file>>
    /\ UNCHANGED <<splitVars, sampleVars, writeVars, corpusVars, sizesVars, cliVars, filesVars, maskVars, judgeVars, tokVars>>

\* prepare_genome_corpus, genome_type == 'both'.
ProcessBothTypes ==
    /\ ppc = "call" /\ impl = "package" /\ genome_type = "both"
    /\ LET r == process_both_types(unmasked_mb, split_size, masked_file)
       IN  calls' = r.calls /\ ppc' = r.pc
    /\ UNCHANGED <<impl, genome_type, unmasked_mb, masked_mb, split_size, masked_file>>
    /\ UNCHANGED <<splitVars, sampleVars, writeVars, corpusVars, sizesVars, cliVars, filesVars, maskVars, judgeVars, tokVars>>

\* prepare_genome_corpus, any other genome_type.
ProcessUnmaskedOnly ==
    /\ ppc = "call" /\ impl = "package" /\ genome_type # "both"
    /\ LET r == process_unmasked_only(unmasked_mb, split_size)
       IN  calls' = r.calls /\ ppc' = r.pc
    /\ UNCHANGED <<impl, genome_type, unmasked_mb, masked_mb, split_size, masked_file>>
    /\ UNCHANGED <<splitVars, sampleVars, writeVars, corpusVars, sizesVars, cliVars, filesVars, maskVars, judgeVars, tokVars>>

PlanNext ==
    \/ JudgeAndGenerate
    \/ ProcessBothTypes
    \/ ProcessUnmaskedOnly

SpecPlan == PlanInit /\ [][PlanNext]_vars

\* Reading a plan: which calls draw from which source, and how much.
BytesPerMB == IF impl = "script" THEN ScriptBytesPerMB ELSE PackageBytesPerMB

MaskedFns == {"get_all_HardMask", "get_SplitHardMask", "process_masked_genome"}
UnmaskedFns == {"get_all_UnMask", "get_SplitUnMask", "process_unmasked_genome"}

MaskedCalls == {i \in 1..Len(calls) : calls[i].fn \in MaskedFns}
UnmaskedCalls == {i \in 1..Len(calls) : calls[i].fn \in UnmaskedFns}

\* process_unmasked_genome treats max_mb None and 0 alike: no limit.
DrawsAll(c) ==
    \/ c.fn \in {"get_all_HardMask", "get_all_UnMask"}
    \/ c.fn = "process_unmasked_genome" /\ c.arg \in {NoneMb, 0}

\* The byte target of a limited call.
DrawBytes(c) ==
    IF c.fn \in {"get_SplitHardMask", "get_SplitUnMask"}
    THEN c.arg
    ELSE c.arg * PackageBytesPerMB

\* The call draws half of split_size.
DrawsHalf(c) == ~DrawsAll(c) /\ DrawBytes(c) * 2 = split_size * BytesPerMB

\* The call draws everything a source of size_mb holds.
DrawsWhole(c, size_mb) ==
    DrawsAll(c) \/ DrawBytes(c) >= size_mb * BytesPerMB

\* C7: a genome with unmasked size <= split size (equality included) gets
\* all of its unmasked sequence drawn and nothing drawn from the masked one.
C7_SmallGenomeAllUnmasked ==
    (ppc = "returned" /\ unmasked_mb <= split_size) =>
        /\ MaskedCalls = {}
        /\ \E i \in UnmaskedCalls : DrawsWhole(calls[i], unmasked_mb)

\* C8: a genome with a masked-derived corpus of at least split/2 and
\* unmasked size > split gets split/2 drawn from each source, for every
\* split size.
C8_LargeGenomeHalfAndHalf ==
    (/\ ppc = "returned" /\ genome_type = "both" /\ masked_file
     /\ unmasked_mb > split_size /\ 2 * masked_mb >= split_size) =>
        /\ \E i \in MaskedCalls : DrawsHalf(calls[i])
        /\ \E i \in UnmaskedCalls : DrawsHalf(calls[i])

\* C9: a genome with unmasked size > split and less than split/2 of
\* masked-derived sequence (or none at all) gets all its masked-derived
\* sequence and split/2 of unmasked sequence drawn.
C9_LargeGenomeLittleMasked ==
    (/\ ppc = "returned" /\ unmasked_mb > split_size
     /\ (genome_type = "both" /\ masked_file => 2 * masked_mb < split_size)) =>
        /\ (genome_type = "both" /\ masked_file) =>
               \E i \in MaskedCalls : DrawsWhole(calls[i], masked_mb)
        /\ \E i \in UnmaskedCalls : DrawsHalf(calls[i])

\* C10: for a genome without a masked variant planning completes, whatever
\* the sizes, and draws nothing masked.
C10_UnmaskedOnlyPlans ==
    genome_type = "unmasked" =>
        /\ ppc \in {"call", "returned"}
        /\ MaskedCalls = {}

(***************************************************************************)
(* Packaged writers: process_unmasked_genome and process_masked_genome     *)
(***************************************************************************)

\* Bound of the writers' input: the number of FASTA records or lines.
MaxRecords == 3

\* Fragments shorter than this are filtered out.
MinFragment == 100

\* A text is a sequence of runs: Run(c, n) is the character c repeated n times.
Run(c, n) == [c |-> c, n |-> n]

RECURSIVE TextLen(_)
TextLen(t) == IF t = <<>> THEN 0 ELSE t[1].n + TextLen(Tail(t))

\* Adjacent runs of one character are one run.
RECURSIVE MergeRuns(_)
MergeRuns(t) ==
    IF Len(t) < 2 THEN t
    ELSE IF t[1].c = t[2].c
         THEN MergeRuns(<<Run(t[1].c, t[1].n + t[2].n)>> \o SubSeq(t, 3, Len(t)))
         ELSE <<t[1]>> \o MergeRuns(Tail(t))

\* str.upper() on the characters a genome file holds.
UpperChar(c) ==
    CASE c = "a" -> "A" [] c = "c" -> "C" [] c = "g" -> "G" [] c = "t" -> "T"
      [] c = "n" -> "N" [] c = "r" -> "R" [] OTHER -> c

Upper(t) == MergeRuns([k \in 1..Len(t) |-> Run(UpperChar(t[k].c), t[k].n)])

\* Python's text[a:b] on a run-length encoded text.
RECURSIVE SliceText(_, _, _)
SliceText(t, a, b) ==
    IF t = <<>> \/ b <= 0 THEN <<>>
    ELSE LET lo == IF a > 0 THEN a ELSE 0
             hi == Min(b, t[1].n)
             rest == SliceText(Tail(t), a - t[1].n, b - t[1].n)
         IN  IF hi > lo THEN <<Run(t[1].c, hi - lo)>> \o rest ELSE rest

\* The records (lines after strip) tried: short ones, long ones, one whose
\* last piece is short, lowercase bases, an IUPAC code, a run of ten N.
RecordTexts ==
    {<<>>, <<Run("A", 99)>>, <<Run("A", 100)>>, <<Run("A", 400000)>>,
     <<Run("A", 1000000)>>, <<Run("A", 400050)>>, <<Run("a", 100)>>,
     <<Run("A", 150), Run("R", 1)>>, <<Run("A", 200), Run("N", 10), Run("a", 200)>>}

\* Lengths of the records (after strip), the chunk lengths and the caps tried.
RecordLens == {TextLen(t) : t \in RecordTexts}
WriteMaxLengths == {400000, 1048576}
MaxMbs == {NoneMb, 0, 1, 2}

\* float('inf')
Inf == 0 - 1

\* max_chars = max_mb * 1024 * 1024 if max_mb else float('inf')
UnmaskedMaxChars(mb) ==
    IF mb = NoneMb \/ mb = 0 THEN Inf ELSE mb * PackageBytesPerMB

\* max_chars = max_mb * 1024 * 1024
MaskedMaxChars(mb) == mb * PackageBytesPerMB

max_chars ==
    IF writer = "unmasked" THEN UnmaskedMaxChars(max_mb) ELSE MaskedMaxChars(max_mb)

\* total_chars >= max_chars
CapReached(total, cap) == cap # Inf /\ total >= cap

\* len(sequence[i:i + max_length])
SubLen(len, i, maxlen) == Min(maxlen, len - i)

WriteInit ==
    /\ SplitIdle /\ SampleIdle /\ PlanIdle /\ CorpusIdle /\ SizesIdle /\ CliIdle /\ FilesIdle /\ MaskIdle /\ JudgeIdle /\ TokIdle
    /\ writer \in {"unmasked", "masked"}
    /\ texts \in SeqsUpTo(RecordTexts, MaxRecords)
    /\ records = [k \in 1..Len(texts) |-> TextLen(texts[k])]
    /\ lines = <<>>
    /\ wmax_length \in WriteMaxLengths
    /\ max_mb \in (IF writer = "unmasked" THEN MaxMbs ELSE MaxMbs \ {NoneMb})
    /\ total_chars = 0
    /\ written = <<>>
    /\ rec = 1
    /\ off = 0
    /\ wpc = "loop"

\* process_unmasked_genome, one iteration of the inner loop: write the piece
\* if it has 100 characters or more, then test the cap.
UnmaskedChunk ==
    /\ wpc = "loop" /\ writer = "unmasked"
    /\ rec <= Len(records) /\ off < records[rec]
    /\ LET sub == SubLen(records[rec], off, wmax_length)
           total == IF sub >= MinFragment THEN total_chars + sub ELSE total_chars
           sub_seq == SliceText(Upper(texts[rec]), off, off + wmax_length)
       IN  /\ written' = IF sub >= MinFragment THEN Append(written, sub) ELSE written
           /\ lines' = IF sub >= MinFragment THEN Append(lines, sub_seq) ELSE lines
           /\ total_chars' = total
           /\ IF CapReached(total, max_chars)
              THEN wpc' = "returned" /\ off' = off
              ELSE wpc' = wpc /\ off' = off + wmax_length
    /\ UNCHANGED <<writer, texts, records, wmax_length, max_mb, rec>>
    /\ UNCHANGED <<splitVars, sampleVars, planVars, corpusVars, sizesVars, cliVars, filesVars, maskVars, judgeVars, tokVars>>

\* process_unmasked_genome: the inner range is exhausted, next record.
UnmaskedNextRecord ==
    /\ wpc = "loop" /\ writer = "unmasked"
    /\ rec <= Len(records) /\ ~(off < records[rec])
    /\ rec' = rec + 1 /\ off' = 0
    /\ UNCHANGED <<writer, texts, records, wmax_length, max_mb, total_chars, written,
                   lines, wpc>>
    /\ UNCHANGED <<splitVars, sampleVars, planVars, corpusVars, sizesVars, cliVars, filesVars, maskVars, judgeVars, tokVars>>

\* process_masked_genome, one iteration of the inner loop of a line of 100
\* characters or more: write the piece.
MaskedChunk ==
    /\ wpc = "loop" /\ writer = "masked"
    /\ rec <= Len(records) /\ records[rec] >= MinFragment /\ off < records[rec]
    /\ LET sub == SubLen(records[rec], off, wmax_length)
           sub_seq == SliceText(Upper(texts[rec]), off, off + wmax_length)
       IN  /\ written' = Append(written, sub)
           /\ lines' = Append(lines, sub_seq)
           /\ total_chars' = total_chars + sub
           /\ off' = off + wmax_length
    /\ UNCHANGED <<writer, texts, records, wmax_length, max_mb, rec, wpc>>
    /\ UNCHANGED <<splitVars, sampleVars, planVars, corpusVars, sizesVars, cliVars, filesVars, maskVars, judgeVars, tokVars>>

\* process_masked_genome, after a line: test the cap, break or go on.
MaskedLineEnd ==
    /\ wpc = "loop" /\ writer = "masked"
    /\ rec <= Len(records)
    /\ records[rec] < MinFragment \/ ~(off < records[rec])
    /\ IF CapReached(total_chars, max_chars)
       THEN wpc' = "returned" /\ rec' = rec /\ off' = off
       ELSE wpc' = wpc /\ rec' = rec + 1 /\ off' = 0
    /\ UNCHANGED <<writer, texts, records, wmax_length, max_mb, total_chars, written,
                   lines>>
    /\ UNCHANGED <<splitVars, sampleVars, planVars, corpusVars, sizesVars, cliVars, filesVars, maskVars, judgeVars, tokVars>>

\* Either writer: the input is exhausted, return total_chars / (1024 * 1024).
WriteReturnAtEnd ==
    /\ wpc = "loop"
    /\ rec > Len(records)
    /\ wpc' = "returned"
    /\ UNCHANGED <<writer, texts, records, wmax_length, max_mb, total_chars, written,
                   lines, rec, off>>
    /\ UNCHANGED <<splitVars, sampleVars, planVars, corpusVars, sizesVars, cliVars, filesVars, maskVars, judgeVars, tokVars>>

WriteNext ==
    \/ UnmaskedChunk
    \/ UnmaskedNextRecord
    \/ MaskedChunk
    \/ MaskedLineEnd
    \/ WriteReturnAtEnd

SpecWrite == WriteInit /\ [][WriteNext]_vars

\* Everything the source offers the writer: the pieces of 100 or more
\* characters (unmasked), the lines of 100 or more characters (masked).
RECURSIVE PiecesLen(_, _, _)
PiecesLen(len, i, maxlen) ==
    IF ~(i < len) THEN 0
    ELSE (IF SubLen(len, i, maxlen) >= MinFragment THEN SubLen(len, i, maxlen) ELSE 0)
         + PiecesLen(len, i + maxlen, maxlen)

Available ==
    SumSeq([k \in 1..Len(records) |->
               IF writer = "unmasked" THEN PiecesLen(records[k], 0, wmax_length)
               ELSE IF records[k] >= MinFragment THEN records[k] ELSE 0])

\* C5: a draw whose target exceeds all the sequence there is does not return
\* normally with less than the target: it ends in an error.  (Stated for a
\* source that has sequence to give, so that the short return is a draw.)
C5_OverdrawFailsLoudly ==
    (wpc # "idle" /\ max_chars # Inf /\ Available > 0 /\ max_chars > Available) =>
        wpc # "returned"

\* C6: with a byte budget T > 0, the running total was below T before the
\* last line was written, so the total exceeds T by less than one chunk.
C6_OvershootAtMostOneChunk ==
    (wpc # "idle" /\ max_chars # Inf /\ max_chars > 0 /\ written # <<>>) =>
        /\ total_chars - written[Len(written)] < max_chars
        /\ total_chars < max_chars + wmax_length

\* C14: every line written to the corpus is non-empty and holds only the
\* uppercase characters A, C, G, T, N, whichever writer wrote it.
C14_LinesAreUppercaseBases ==
    \A i \in 1..Len(lines) :
        /\ lines[i] # <<>>
        /\ \A k \in 1..Len(lines[i]) : lines[i][k].c \in ValidBases

\* C15: no line written by the packaged writers is shorter than 100
\* characters, the last piece of a record or of a masked line included.
C15_NoLineBelowMinimum ==
    \A i \in 1..Len(written) : written[i] >= MinFragment

\* The length of N-run the script's readers break a sequence at.
HardBreakRun == 10

\* C16: no line of unmasked sequence holds a run of ten or more N.
C16_NoLineHoldsLongNRun ==
    writer = "unmasked" =>
        \A i \in 1..Len(lines) :
            \A k \in 1..Len(lines[i]) :
                ~(lines[i][k].c = "N" /\ lines[i][k].n >= HardBreakRun)

\* C19: a writer given the cap 0 MB writes no line.
C19_ZeroCapWritesNothing ==
    (wpc # "idle" /\ max_mb = 0) => written = <<>>

(***************************************************************************)
(* Corpus stage: main (script) and prepare_genome_corpus (package), the    *)
(* loop over the genomes                                                   *)
(***************************************************************************)

\* Bound of the metadata table.
MaxGenomes == 2

\* --GenomeSplit / genome_split_size, the default.
DefaultSplitSizeMB == 500

\* Lines one writer call finds to write in its file.
LineCounts == {0, 2}

\* A genome of the metadata table: its type, whether the size table has a
\* row for it and the size that row gives, and which files the directories
\* hold.  The size stage writes no row for a genome whose FASTA it cannot
\* find.
Genome(gtype, row, um, uf, mf) ==
    [genome_type |-> gtype, size_row |-> row, unmasked_mb |-> um,
     unmasked_found |-> uf, masked_found |-> mf]

GenomeKinds ==
    {g \in {Genome(gtype, TRUE, um, uf, mf) :
                gtype \in {"both", "unmasked"}, um \in {100, 800}, uf \in BOOLEAN,
                mf \in BOOLEAN}
            \cup {Genome(gtype, FALSE, NoneMb, FALSE, mf) :
                     gtype \in {"both", "unmasked"}, mf \in BOOLEAN} :
        g.genome_type = "unmasked" => ~g.masked_found}

\* len(cleaned_content) / 1000000 of the split-mask file tried.
SplitMaskFileMB == 300

Line(g, source) == [genome |-> g, source |-> source]

Source(c) == IF c.fn \in {"get_all_HardMask", "get_SplitHardMask", "process_masked_genome"}
             THEN "masked" ELSE "unmasked"

\* k lines of genome g drawn from one source.
LinesOf(g, source, k) == [j \in 1..k |-> Line(g, source)]

\* out.write / print(..., file=outfile) on the handle opened with 'w':
\* lines go to the end of the file.
WriteLines(out, new) == out \o new

\* The exceptions a missing file ends the run with: no row in the size
\* table, no split-mask file, no FASTA.
MissingFileErrors == {"KeyError", "IndexError", "AttributeError"}

\* df.index of the size table: the genomes of a metadata table t that have a
\* row there, in the orders the rows can be in.  --GenomeSizeFile is a file
\* of its own: nothing ties the order of its rows to the metadata table.
\* The package looks its rows up by name (size_df.loc), so one order stands
\* for all there.
SizeIndexes(implementation, t) ==
    LET listed == {g \in DOMAIN t : t[g].size_row}
        orders == {q \in [1..Cardinality(listed) -> listed] :
                      \A i, j \in DOMAIN q : i # j => q[i] # q[j]}
    IN  IF implementation = "script" THEN orders
        ELSE {q \in orders : \A i, j \in DOMAIN q : i < j => q[i] < q[j]}

CorpusInit ==
    /\ SplitIdle /\ SampleIdle /\ PlanIdle /\ WriteIdle /\ SizesIdle /\ CliIdle /\ FilesIdle /\ MaskIdle /\ JudgeIdle /\ TokIdle
    /\ cimpl \in {"script", "package"}
    /\ genomes \in SeqsUpTo(GenomeKinds, MaxGenomes)
    /\ size_index \in SizeIndexes(cimpl, genomes)
    /\ metadata_ok \in BOOLEAN
    /\ size_ok \in BOOLEAN
    /\ gi = 1
    /\ pending = <<>>
    /\ total_seq_list = <<>>
    /\ outlines = <<>>
    /\ cwarnings = {}
    /\ outfile = "untouched"
    /\ cpc = "start"

\* main: df = pd.read_csv(GenomeSizeFile, ...); with open(outfile, 'w') as out.
\* The metadata table is not read here.
ScriptStart ==
    /\ cpc = "start" /\ cimpl = "script" /\ size_ok
    /\ outfile' = "open"
    /\ cpc' = "next"
    /\ UNCHANGED <<cimpl, genomes, size_index, metadata_ok, size_ok, gi, pending, total_seq_list,
                   outlines, cwarnings>>
    /\ UNCHANGED <<splitVars, sampleVars, planVars, writeVars, sizesVars, cliVars, filesVars, maskVars, judgeVars, tokVars>>

\* main: pd.read_csv raises on the size table, before the open.
ScriptStartRaises ==
    /\ cpc = "start" /\ cimpl = "script" /\ ~size_ok
    /\ cpc' = "ParserError"
    /\ UNCHANGED <<cimpl, genomes, size_index, metadata_ok, size_ok, gi, pending, total_seq_list,
                   outlines, cwarnings, outfile>>
    /\ UNCHANGED <<splitVars, sampleVars, planVars, writeVars, sizesVars, cliVars, filesVars, maskVars, judgeVars, tokVars>>

\* prepare_genome_corpus: both tables are read, then outfile is opened.
PackageStart ==
    /\ cpc = "start" /\ cimpl = "package" /\ metadata_ok /\ size_ok
    /\ outfile' = "open"
    /\ cpc' = "next"
    /\ UNCHANGED <<cimpl, genomes, size_index, metadata_ok, size_ok, gi, pending, total_seq_list,
                   outlines, cwarnings>>
    /\ UNCHANGED <<splitVars, sampleVars, planVars, writeVars, sizesVars, cliVars, filesVars, maskVars, judgeVars, tokVars>>

\* prepare_genome_corpus: pd.read_csv raises on either table, before the open.
PackageStartRaises ==
    /\ cpc = "start" /\ cimpl = "package" /\ ~(metadata_ok /\ size_ok)
    /\ cpc' = "ParserError"
    /\ UNCHANGED <<cimpl, genomes, size_index, metadata_ok, size_ok, gi, pending, total_seq_list,
                   outlines, cwarnings, outfile>>
    /\ UNCHANGED <<splitVars, sampleVars, planVars, writeVars, sizesVars, cliVars, filesVars, maskVars, judgeVars, tokVars>>

\* GenomeObj(...) followed by judge_and_generate: how the two end for one
\* genome.  __init__ reads the metadata table; SplitMaskPath[0] raises IndexError when no split-mask file
\* matches; UnMask_genome_file_path is an attribute only when a FASTA matched,
\* so the first get_*UnMask call raises AttributeError otherwise.
ScriptPlan(g) ==
    IF ~metadata_ok
    THEN [calls |-> <<>>, pc |-> "ParserError"]
    ELSE IF g.genome_type = "both" /\ ~g.masked_found
    THEN [calls |-> <<>>, pc |-> "IndexError"]
    ELSE LET r == judge_and_generate(g.genome_type, SizeScale * g.unmasked_mb,
                                     SizeScale * SplitMaskFileMB, DefaultSplitSizeMB)
         IN  IF r.pc = "returned" /\ ~g.unmasked_found
                /\ \E i \in 1..Len(r.calls) : Source(r.calls[i]) = "unmasked"
             THEN [calls |-> r.calls, pc |-> "AttributeError"]
             ELSE r

\* The ways the two end for one genome: as ScriptPlan says, or with the
\* IndexError of a sampling getter that ran dry.  Without a FASTA the
\* unmasked getter raises AttributeError before it samples, so only a
\* sampling getter called before it can run dry.
ScriptPlanOutcomes(g) ==
    LET r == ScriptPlan(g)
        dry == {k \in DOMAIN r.calls :
                   /\ r.calls[k].fn \in SamplingGetters
                   /\ \/ r.pc = "returned"
                      \/ /\ r.pc = "AttributeError"
                         /\ \A i \in 1..k : Source(r.calls[i]) # "unmasked"}
    IN  {r} \cup {[calls |-> SubSeq(r.calls, 1, k), pc |-> "IndexError"] : k \in dry}

\* main: for genome_name in df.index: the genome the loop of the script is
\* at.  df is the size table, so the loop takes the genomes in the order of
\* its rows and never comes to a genome that has no row there.
ScriptGenomeName == size_index[gi]

\* main: Genome = GenomeObj(...); total_seq_list = Genome.judge_and_generate(...)
\* returns the lines of every draw, the masked ones first.
ScriptGenome ==
    /\ cpc = "next" /\ cimpl = "script"
    /\ gi <= Len(size_index)
    /\ \E r \in ScriptPlanOutcomes(genomes[ScriptGenomeName]) :
           /\ r.pc = "returned"
           /\ \E ks \in [1..Len(r.calls) -> LineCounts] :
                 total_seq_list' =
                     IF Len(r.calls) = 1
                     THEN LinesOf(ScriptGenomeName, Source(r.calls[1]), ks[1])
                     ELSE LinesOf(ScriptGenomeName, Source(r.calls[1]), ks[1])
                          \o LinesOf(ScriptGenomeName, Source(r.calls[2]), ks[2])
    /\ cpc' = "write"
    /\ UNCHANGED outfile
    /\ UNCHANGED <<cimpl, genomes, size_index, metadata_ok, size_ok, gi, pending, outlines, cwarnings>>
    /\ UNCHANGED <<splitVars, sampleVars, planVars, writeVars, sizesVars, cliVars, filesVars, maskVars, judgeVars, tokVars>>

\* main: the same two calls, ending in an exception nothing catches.
ScriptGenomeRaises ==
    /\ cpc = "next" /\ cimpl = "script"
    /\ gi <= Len(size_index)
    /\ \E r \in ScriptPlanOutcomes(genomes[ScriptGenomeName]) :
           r.pc # "returned" /\ cpc' = r.pc
    /\ outfile' = "closed"
    /\ UNCHANGED <<cimpl, genomes, size_index, metadata_ok, size_ok, gi, pending, total_seq_list, outlines, cwarnings>>
    /\ UNCHANGED <<splitVars, sampleVars, planVars, writeVars, sizesVars, cliVars, filesVars, maskVars, judgeVars, tokVars>>

\* main: for seq in total_seq_list: out.write(seq + '\n'); next genome.
ScriptWrite ==
    /\ cpc = "write" /\ cimpl = "script"
    /\ outlines' = WriteLines(outlines, total_seq_list)
    /\ total_seq_list' = <<>>
    /\ gi' = gi + 1
    /\ cpc' = "next"
    /\ UNCHANGED outfile
    /\ UNCHANGED <<cimpl, genomes, size_index, metadata_ok, size_ok, pending, cwarnings>>
    /\ UNCHANGED <<splitVars, sampleVars, planVars, writeVars, sizesVars, cliVars, filesVars, maskVars, judgeVars, tokVars>>

\* prepare_genome_corpus: size_df.loc[genome_name, 'sum_len'] raises KeyError
\* for a genome the size table has no row for.
PackageKeyError ==
    /\ cpc = "next" /\ cimpl = "package"
    /\ gi <= Len(genomes) /\ ~genomes[gi].size_row
    /\ cpc' = "KeyError"
    /\ outfile' = "closed"
    /\ UNCHANGED <<cimpl, genomes, size_index, metadata_ok, size_ok, gi, pending, total_seq_list, outlines, cwarnings>>
    /\ UNCHANGED <<splitVars, sampleVars, planVars, writeVars, sizesVars, cliVars, filesVars, maskVars, judgeVars, tokVars>>

\* prepare_genome_corpus, top of one iteration: process_both_types or
\* process_unmasked_only chooses the writer calls; a large 'both' genome
\* without a split-mask file gets a warning and its unmasked call.
PackageGenome ==
    /\ cpc = "next" /\ cimpl = "package"
    /\ gi <= Len(genomes) /\ genomes[gi].size_row
    /\ LET g == genomes[gi]
           r == IF g.genome_type = "both"
                THEN process_both_types(g.unmasked_mb, DefaultSplitSizeMB, g.masked_found)
                ELSE process_unmasked_only(g.unmasked_mb, DefaultSplitSizeMB)
           warns == /\ g.genome_type = "both" /\ ~g.masked_found
                    /\ ~(g.unmasked_mb < DefaultSplitSizeMB)
       IN  /\ pending' = r.calls
           /\ cwarnings' = IF warns THEN cwarnings \cup {gi} ELSE cwarnings
    /\ cpc' = "calls"
    /\ UNCHANGED outfile
    /\ UNCHANGED <<cimpl, genomes, size_index, metadata_ok, size_ok, gi, total_seq_list, outlines>>
    /\ UNCHANGED <<splitVars, sampleVars, planVars, writeVars, sizesVars, cliVars, filesVars, maskVars, judgeVars, tokVars>>

\* One writer call of the genome.  process_unmasked_genome without a FASTA
\* prints a warning and returns 0; otherwise the call prints its lines to
\* outfile.  After the last call the loop goes to the next genome.
PackageCall ==
    /\ cpc = "calls" /\ cimpl = "package" /\ pending # <<>>
    /\ LET c == Head(pending)
           absent == Source(c) = "unmasked" /\ ~genomes[gi].unmasked_found
       IN  /\ \E k \in LineCounts :
                 outlines' = IF absent THEN outlines
                             ELSE WriteLines(outlines, LinesOf(gi, Source(c), k))
           /\ cwarnings' = IF absent THEN cwarnings \cup {gi} ELSE cwarnings
    /\ pending' = Tail(pending)
    /\ IF Tail(pending) = <<>>
       THEN gi' = gi + 1 /\ cpc' = "next"
       ELSE gi' = gi /\ cpc' = cpc
    /\ UNCHANGED outfile
    /\ UNCHANGED <<cimpl, genomes, size_index, metadata_ok, size_ok, total_seq_list>>
    /\ UNCHANGED <<splitVars, sampleVars, planVars, writeVars, sizesVars, cliVars, filesVars, maskVars, judgeVars, tokVars>>

\* Either implementation: the table the loop walks (the size table in the
\* script, the metadata table in the package) is exhausted, the with block
\* closes outfile.
CorpusDone ==
    /\ cpc = "next"
    /\ gi > (IF cimpl = "script" THEN Len(size_index) ELSE Len(genomes))
    /\ cpc' = "done"
    /\ outfile' = "closed"
    /\ UNCHANGED <<cimpl, genomes, size_index, metadata_ok, size_ok, gi, pending, total_seq_list, outlines, cwarnings>>
    /\ UNCHANGED <<splitVars, sampleVars, planVars, writeVars, sizesVars, cliVars, filesVars, maskVars, judgeVars, tokVars>>

CorpusNext ==
    \/ ScriptStart
    \/ ScriptStartRaises
    \/ PackageStart
    \/ PackageStartRaises
    \/ ScriptGenome
    \/ ScriptGenomeRaises
    \/ ScriptWrite
    \/ PackageKeyError
    \/ PackageGenome
    \/ PackageCall
    \/ CorpusDone

SpecCorpus == CorpusInit /\ [][CorpusNext]_vars

\* A source file the genome needs cannot be resolved.
MissingRequired(g) ==
    ~g.unmasked_found \/ (g.genome_type = "both" /\ ~g.masked_found)

LinesOfGenome(g) == {i \in 1..Len(outlines) : outlines[i].genome = g}

\* The loop is at genome g of the metadata table / has left it behind.
LoopAt(g) ==
    IF cimpl = "script" THEN gi \in DOMAIN size_index /\ size_index[gi] = g
    ELSE g = gi

LoopPast(g) ==
    IF cimpl = "script"
    THEN \E p \in DOMAIN size_index : p < gi /\ size_index[p] = g
    ELSE g < gi

\* C11: a genome with a required source file missing (the unmasked FASTA, or
\* the split-mask file of a 'both' genome) does not abort the run; once the
\* loop is past it, the corpus holds no line of it and a warning was given
\* for it (the size stage gave the warning already when it wrote no row).
C11_MissingFileSkipsGenome ==
    \A g \in 1..Len(genomes) :
        (metadata_ok /\ size_ok /\ MissingRequired(genomes[g])) =>
            /\ ~(LoopAt(g) /\ cpc \in MissingFileErrors)
            /\ LoopPast(g) => /\ LinesOfGenome(g) = {}
                              /\ genomes[g].size_row => g \in cwarnings

\* C13: when the metadata table or the size table cannot be parsed, the
\* stage that ends with the parse error has not created or truncated the
\* corpus file.
C13_MalformedTableNoPartialOutput ==
    (cpc = "ParserError" /\ (~metadata_ok \/ ~size_ok)) => outfile = "untouched"

\* Each genome is processed to completion before the next begins: a genome
\* has lines only once the loop has come to it, none are added after the
\* loop has left it, and the lines of one genome are never parted by a line
\* of another.
NeverInterleaved ==
    /\ \A i \in 1..Len(outlines) :
           \/ LoopPast(outlines[i].genome)
           \/ LoopAt(outlines[i].genome) /\ cpc = "calls"
    /\ \A i, j, k \in 1..Len(outlines) :
           (i < j /\ j < k /\ outlines[i].genome = outlines[k].genome) =>
               outlines[j].genome = outlines[i].genome
    /\ (pending # <<>> \/ total_seq_list # <<>>) => cpc \in {"calls", "write"}

\* The lines of the corpus are in the order of the metadata table.
InMetadataOrder ==
    \A i, j \in 1..Len(outlines) :
        i < j => outlines[i].genome <= outlines[j].genome

\* C17: the corpus holds the genomes' lines in the order of the metadata
\* table and each genome is processed to completion before the next begins:
\* every line of a genome precedes every line of a genome that comes later
\* in the metadata table, and no two genomes' lines interleave.
C17_GenomesInTableOrder == InMetadataOrder /\ NeverInterleaved

\* What holds of both implementations: the package writes in the order of
\* the metadata table, the script in the order of the rows of the size
\* table, and neither interleaves two genomes.
InLoopOrder ==
    /\ cimpl = "package" => InMetadataOrder
    /\ cimpl = "script" =>
           \A i, j \in 1..Len(outlines) : \A p, q \in DOMAIN size_index :
               (i < j /\ size_index[p] = outlines[i].genome
                      /\ size_index[q] = outlines[j].genome) => p <= q
    /\ NeverInterleaved

(***************************************************************************)
(* Size-statistics stage: write_genome_sizes (script and package)          *)
(***************************************************************************)

\* What the stage meets for a genome: a FASTA it can measure, none that
\* matches, one it may not read, one whose statistics fail (fasta_stats
\* divides by the number of records, which is 0 for a file without records).
FastaStatuses == {"ok", "missing", "unreadable", "badstats"}

Row(g, f) == [genome |-> g, file |-> f]

SizesInit ==
    /\ SplitIdle /\ SampleIdle /\ PlanIdle /\ WriteIdle /\ CorpusIdle /\ CliIdle /\ FilesIdle /\ MaskIdle /\ JudgeIdle /\ TokIdle
    /\ zimpl \in {"script", "package"}
    /\ fasta_status \in SeqsUpTo(FastaStatuses, MaxGenomes)
    /\ zmetadata_ok \in BOOLEAN
    /\ zi = 1
    /\ fasta_file = 0
    /\ header = FALSE
    /\ rows = <<>>
    /\ zwarnings = {}
    /\ zpc = "start"

\* write_genome_sizes: open(output_file, 'w'), print the header, then read
\* the metadata table.  The package catches the parse error, prints it and
\* returns; the script lets it propagate.
SizesStart ==
    /\ zpc = "start"
    /\ header' = TRUE
    /\ zpc' = IF zmetadata_ok THEN "loop"
              ELSE IF zimpl = "package" THEN "returned" ELSE "ParserError"
    /\ UNCHANGED <<zimpl, fasta_status, zmetadata_ok, zi, fasta_file, rows, zwarnings>>
    /\ UNCHANGED <<splitVars, sampleVars, planVars, writeVars, corpusVars, cliVars, filesVars, maskVars, judgeVars, tokVars>>

\* Package, one iteration that ends in continue: no file matched, or
\* os.access denies reading, or fasta_stats raised inside the try.
PackageSizeSkip ==
    /\ zpc = "loop" /\ zimpl = "package"
    /\ zi <= Len(fasta_status) /\ fasta_status[zi] # "ok"
    /\ fasta_file' = IF fasta_status[zi] = "missing" THEN 0 ELSE zi
    /\ zwarnings' = zwarnings \cup {zi}
    /\ zi' = zi + 1
    /\ UNCHANGED <<zimpl, fasta_status, zmetadata_ok, header, rows, zpc>>
    /\ UNCHANGED <<splitVars, sampleVars, planVars, writeVars, corpusVars, cliVars, filesVars, maskVars, judgeVars, tokVars>>

\* Package, one iteration that writes the row of the genome.
PackageSizeRow ==
    /\ zpc = "loop" /\ zimpl = "package"
    /\ zi <= Len(fasta_status) /\ fasta_status[zi] = "ok"
    /\ fasta_file' = zi
    /\ rows' = Append(rows, Row(zi, zi))
    /\ zi' = zi + 1
    /\ UNCHANGED <<zimpl, fasta_status, zmetadata_ok, header, zwarnings, zpc>>
    /\ UNCHANGED <<splitVars, sampleVars, planVars, writeVars, corpusVars, cliVars, filesVars, maskVars, judgeVars, tokVars>>

\* Script: the pattern loop binds fasta_file only when a file matches, so
\* without a match the name keeps the file of an earlier genome.
ScriptFastaFile(i, prev) == IF fasta_status[i] = "missing" THEN prev ELSE i

\* fasta_stats(f) returns: f is bound and names a file it can measure.
Measurable(f) == IF f = 0 THEN FALSE ELSE fasta_status[f] = "ok"

\* Script, one iteration that writes a row: fasta_stats(fasta_file) of the
\* file the name is bound to.
ScriptSizeRow ==
    /\ zpc = "loop" /\ zimpl = "script"
    /\ zi <= Len(fasta_status)
    /\ LET f == ScriptFastaFile(zi, fasta_file)
       IN  /\ Measurable(f)
           /\ fasta_file' = f
           /\ rows' = Append(rows, Row(zi, f))
    /\ zi' = zi + 1
    /\ UNCHANGED <<zimpl, fasta_status, zmetadata_ok, header, zwarnings, zpc>>
    /\ UNCHANGED <<splitVars, sampleVars, planVars, writeVars, corpusVars, cliVars, filesVars, maskVars, judgeVars, tokVars>>

\* Script, one iteration that raises: fasta_file is unbound, or the file
\* cannot be opened, or fasta_stats divides by zero.  Nothing catches it.
ScriptSizeRaises ==
    /\ zpc = "loop" /\ zimpl = "script"
    /\ zi <= Len(fasta_status)
    /\ LET f == ScriptFastaFile(zi, fasta_file)
       IN  /\ ~Measurable(f)
           /\ fasta_file' = f
           /\ zpc' = IF f = 0 THEN "UnboundLocalError"
                     ELSE IF fasta_status[f] = "unreadable" THEN "PermissionError"
                     ELSE "ZeroDivisionError"
    /\ UNCHANGED <<zimpl, fasta_status, zmetadata_ok, zi, header, rows, zwarnings>>
    /\ UNCHANGED <<splitVars, sampleVars, planVars, writeVars, corpusVars, cliVars, filesVars, maskVars, judgeVars, tokVars>>

\* Either implementation: the table is exhausted, the file is closed.
SizesDone ==
    /\ zpc = "loop" /\ zi > Len(fasta_status)
    /\ zpc' = "returned"
    /\ UNCHANGED <<zimpl, fasta_status, zmetadata_ok, zi, fasta_file, header, rows,
                   zwarnings>>
    /\ UNCHANGED <<splitVars, sampleVars, planVars, writeVars, corpusVars, cliVars, filesVars, maskVars, judgeVars, tokVars>>

SizesNext ==
    \/ SizesStart
    \/ PackageSizeSkip
    \/ PackageSizeRow
    \/ ScriptSizeRow
    \/ ScriptSizeRaises
    \/ SizesDone

SpecSizes == SizesInit /\ [][SizesNext]_vars

SizeErrors == {"UnboundLocalError", "PermissionError", "ZeroDivisionError"}

RowsOfGenome(g) == {i \in 1..Len(rows) : rows[i].genome = g}

\* C12: a genome whose file is missing, unreadable or fails the statistics
\* does not end the run; once the loop is past it, it has a warning and no
\* row in genome_sizes.txt.
C12_SizeFailuresIsolated ==
    \A g \in 1..Len(fasta_status) :
        (zmetadata_ok /\ fasta_status[g] # "ok") =>
            /\ ~(g = zi /\ zpc \in SizeErrors)
            /\ g < zi => (g \in zwarnings /\ RowsOfGenome(g) = {})

(***************************************************************************)
(* Command line: cli.main, the four stage runners and run_all              *)
(***************************************************************************)

Commands ==
    {"none", "prepare-genome", "prepare-corpus", "train-tokenizer", "generate-config",
     "all"}

\* config_args.example_config_file as run_all builds it.
AllExampleConfigFile == "None"

CliInit ==
    /\ SplitIdle /\ SampleIdle /\ PlanIdle /\ WriteIdle /\ CorpusIdle /\ SizesIdle /\ FilesIdle /\ MaskIdle /\ JudgeIdle /\ TokIdle
    /\ command \in Commands
    /\ check_ok \in BOOLEAN
    /\ genome_raises \in BOOLEAN
    /\ corpus_raises \in BOOLEAN
    /\ train_ok \in BOOLEAN
    /\ config_ok \in BOOLEAN
    /\ stages = <<>>
    /\ reported = FALSE
    /\ exit_code = NoneMb
    /\ lpc = "main"

\* The process ends with the given status.
Exit(code) == exit_code' = code /\ lpc' = "exited"

\* main: args.command is None: print the help, sys.exit(1).
MainNoCommand ==
    /\ lpc = "main" /\ command = "none"
    /\ Exit(1)
    /\ UNCHANGED <<command, check_ok, genome_raises, corpus_raises, train_ok, config_ok, stages,
                   reported>>
    /\ UNCHANGED <<splitVars, sampleVars, planVars, writeVars, corpusVars, sizesVars, filesVars, maskVars, judgeVars, tokVars>>

RunPrepareGenomeUngated ==
    /\ lpc = "main" /\ command \in {"prepare-genome", "all"}
    /\ stages' = Append(stages, "prepare-genome")
    /\ IF genome_raises THEN Exit(1)
       ELSE IF command = "all" THEN lpc' = "corpus" /\ exit_code' = exit_code
       ELSE Exit(0)
    /\ UNCHANGED <<command, check_ok, genome_raises, corpus_raises, train_ok, config_ok, reported>>
    /\ UNCHANGED <<splitVars, sampleVars, planVars, writeVars, corpusVars, sizesVars, filesVars, maskVars, judgeVars, tokVars>>

\* run_prepare_genome, called by main (its result is dropped) or as step 1
\* of run_all (sys.exit(1) when it returns False).  An exception of
\* os.makedirs or of the functions of genome_size it calls (the read of the
\* metadata table is unguarded) reaches the except clause of main:
\* sys.exit(1).
RunPrepareGenome ==
    /\ lpc = "main" /\ command \in {"prepare-genome", "all"}
    /\ stages' = Append(stages, "prepare-genome")
    /\ IF genome_raises THEN Exit(1)
       ELSE IF command = "all"
       THEN IF check_ok THEN lpc' = "corpus" /\ exit_code' = exit_code ELSE Exit(1)
       ELSE Exit(0)
    /\ UNCHANGED <<command, check_ok, genome_raises, corpus_raises, train_ok, config_ok, reported>>
    /\ UNCHANGED <<splitVars, sampleVars, planVars, writeVars, corpusVars, sizesVars, filesVars, maskVars, judgeVars, tokVars>>

\* run_prepare_corpus, called by main or as step 2 of run_all.  An exception
\* reaches the except clause of main: sys.exit(1).
RunPrepareCorpus ==
    /\ \/ lpc = "main" /\ command = "prepare-corpus"
       \/ lpc = "corpus" /\ command = "all"
    /\ stages' = Append(stages, "prepare-corpus")
    /\ IF corpus_raises THEN Exit(1)
       ELSE IF command = "all" THEN lpc' = "train" /\ exit_code' = exit_code
       ELSE Exit(0)
    /\ UNCHANGED <<command, check_ok, genome_raises, corpus_raises, train_ok, config_ok, reported>>
    /\ UNCHANGED <<splitVars, sampleVars, planVars, writeVars, corpusVars, sizesVars, filesVars, maskVars, judgeVars, tokVars>>

\* run_train_tokenizer, called by main or as step 3 of run_all: sys.exit(1)
\* when training failed.
RunTrainTokenizer ==
    /\ \/ lpc = "main" /\ command = "train-tokenizer"
       \/ lpc = "train" /\ command = "all"
    /\ stages' = Append(stages, "train-tokenizer")
    /\ IF ~train_ok THEN Exit(1)
       ELSE IF command = "all" THEN lpc' = "config" /\ exit_code' = exit_code
       ELSE Exit(0)
    /\ UNCHANGED <<command, check_ok, genome_raises, corpus_raises, train_ok, config_ok, reported>>
    /\ UNCHANGED <<splitVars, sampleVars, planVars, writeVars, corpusVars, sizesVars, filesVars, maskVars, judgeVars, tokVars>>

\* run_generate_config, called by main: sys.exit(1) when generation failed.
RunGenerateConfig ==
    /\ lpc = "main" /\ command = "generate-config"
    /\ stages' = Append(stages, "generate-config")
    /\ IF config_ok THEN Exit(0) ELSE Exit(1)
    /\ UNCHANGED <<command, check_ok, genome_raises, corpus_raises, train_ok, config_ok, reported>>
    /\ UNCHANGED <<splitVars, sampleVars, planVars, writeVars, corpusVars, sizesVars, filesVars, maskVars, judgeVars, tokVars>>

\* run_all, step 4 and the end: config_args.example_config_file is None, so
\* the step prints a warning instead of calling run_generate_config; then
\* the completion message is printed and main returns.
AllFinish ==
    /\ lpc = "config" /\ command = "all"
    /\ IF AllExampleConfigFile = "None"
       THEN stages' = stages /\ reported' = TRUE /\ Exit(0)
       ELSE /\ stages' = Append(stages, "generate-config")
            /\ IF config_ok THEN reported' = TRUE /\ Exit(0)
               ELSE reported' = reported /\ Exit(1)
    /\ UNCHANGED <<command, check_ok, genome_raises, corpus_raises, train_ok, config_ok>>
    /\ UNCHANGED <<splitVars, sampleVars, planVars, writeVars, corpusVars, sizesVars, filesVars, maskVars, judgeVars, tokVars>>

CliNext ==
    \/ MainNoCommand
    \/ RunPrepareGenome
    \/ RunPrepareCorpus
    \/ RunTrainTokenizer
    \/ RunGenerateConfig
    \/ AllFinish

SpecCli == CliInit /\ [][CliNext]_vars

StagesRun == {stages[i] : i \in 1..Len(stages)}

\* C20: when the 'all' command reports completion, the configuration files
\* of stage 4 have been generated.
C20_AllGeneratesConfig ==
    (command = "all" /\ reported) => "generate-config" \in StagesRun

\* The stages of run_all, in the order it calls them.
AllStageOrder == <<"prepare-genome", "prepare-corpus", "train-tokenizer",
                   "generate-config">>

\* C21: under the 'all' command the stages entered are a prefix of the
\* fixed order; a stage is entered only after the one before it succeeded;
\* a failed genome-file check or a failed training ends the process with
\* status 1 and is the last stage entered.
C21_StagesInOrderAndGated ==
    command = "all" =>
        /\ Len(stages) <= Len(AllStageOrder)
        /\ \A i \in 1..Len(stages) : stages[i] = AllStageOrder[i]
        /\ Len(stages) >= 2 => (check_ok /\ ~genome_raises)
        /\ Len(stages) >= 3 => ~corpus_raises
        /\ reported => train_ok
        /\ (Len(stages) >= 1 /\ (~check_ok \/ genome_raises)) =>
               lpc = "exited" /\ exit_code = 1 /\ Len(stages) = 1
        /\ (Len(stages) >= 3 /\ ~train_ok) =>
               lpc = "exited" /\ exit_code = 1 /\ Len(stages) = 3 /\ ~reported

\* A run of 'all' that passed the check and the corpus stage and ended with
\* status 1 in the training stage.
C21_Witness ==
    /\ command = "all" /\ lpc = "exited" /\ exit_code = 1
    /\ stages = <<"prepare-genome", "prepare-corpus", "train-tokenizer">>
    /\ ~train_ok /\ ~reported

(***************************************************************************)
(* Genome files: check_genome_files, the file resolvers of the size and    *)
(* corpus stages, and the names split_hardmask_genome gives its outputs.   *)
(* File and genome names are strings; a directory is the set of its file   *)
(* names.  glob and fnmatch patterns of the code all have the shape        *)
(* prefix*suffix.                                                          *)
(***************************************************************************)

MaxFiles == 2

NoFile == ""

GenomeNames == {"ab", "Ab", "ba"}

UnmaskedCatalogue == {"ab.fa", "Ab.fa", "aB.fa", "ab.fasta", "ba.fa.gz", "BA.fa"}

MaskedCatalogue == {"ab.fa", "ab.fasta", "Ab.fa.gz", "ba.fasta.gz"}

Lowers == "abfgnpstxz"

Uppers == "ABFGNPSTXZ"

CharAt(str, i) == SubSeq(str, i, i)

Rest(str) == SubSeq(str, 2, Len(str))

IndexIn(alphabet, c) ==
    IF \E i \in 1..Len(alphabet) : CharAt(alphabet, i) = c
    THEN CHOOSE i \in 1..Len(alphabet) : CharAt(alphabet, i) = c
    ELSE 0

CharLower(c) == IF IndexIn(Uppers, c) = 0 THEN c ELSE CharAt(Lowers, IndexIn(Uppers, c))

CharUpper(c) == IF IndexIn(Lowers, c) = 0 THEN c ELSE CharAt(Uppers, IndexIn(Lowers, c))

IsCased(c) == IndexIn(Lowers, c) # 0 \/ IndexIn(Uppers, c) # 0

\* str.lower()
RECURSIVE StrLower(_)
StrLower(str) ==
    IF str = "" THEN "" ELSE CharLower(CharAt(str, 1)) \o StrLower(Rest(str))

\* str.upper()
RECURSIVE StrUpper(_)
StrUpper(str) ==
    IF str = "" THEN "" ELSE CharUpper(CharAt(str, 1)) \o StrUpper(Rest(str))

\* str.title(): a cased character is uppercased after an uncased one (or at
\* the start) and lowercased after a cased one.
RECURSIVE TitleFrom(_, _)
TitleFrom(str, previous_is_cased) ==
    IF str = "" THEN ""
    ELSE (IF previous_is_cased THEN CharLower(CharAt(str, 1))
                               ELSE CharUpper(CharAt(str, 1)))
         \o TitleFrom(Rest(str), IsCased(CharAt(str, 1)))

StrTitle(str) == TitleFrom(str, FALSE)

\* str.replace(old, new): every non-overlapping occurrence, left to right.
RECURSIVE StrReplace(_, _, _)
StrReplace(str, old, new) ==
    IF Len(str) < Len(old) THEN str
    ELSE IF SubSeq(str, 1, Len(old)) = old
         THEN new \o StrReplace(SubSeq(str, Len(old) + 1, Len(str)), old, new)
         ELSE CharAt(str, 1) \o StrReplace(Rest(str), old, new)

EndsWith(str, suffix) ==
    /\ Len(str) >= Len(suffix)
    /\ SubSeq(str, Len(str) - Len(suffix) + 1, Len(str)) = suffix

\* fnmatch of name against the pattern prefix*suffix, case-sensitive.
Fnmatch(name, prefix, suffix) ==
    /\ Len(name) >= Len(prefix) + Len(suffix)
    /\ SubSeq(name, 1, Len(prefix)) = prefix
    /\ EndsWith(name, suffix)

\* glob(os.path.join(directory, prefix*suffix)): the names that match.
Glob(directory, prefix, suffix) == {f \in directory : Fnmatch(f, prefix, suffix)}

\* findfiles(prefix*suffix, where): re.IGNORECASE match of the translated pattern.
Findfiles(prefix, suffix, where) ==
    {f \in where : Fnmatch(StrLower(f), StrLower(prefix), StrLower(suffix))}

\* The name variants the package tries, in order.
NameVariants(genome_name) ==
    <<genome_name, StrLower(genome_name), StrTitle(StrLower(genome_name)),
      StrUpper(StrLower(genome_name))>>

FilePatterns == <<"fa", "fasta", "fa.gz", "fasta.gz">>

\* The package's path patterns "*.fa", "*.fasta", "*.fa.gz", "*.fasta.gz".
DotPatterns == [k \in DOMAIN FilePatterns |-> "." \o FilePatterns[k]]

\* for name in name_variants: for pattern in file_patterns
NameOuter(names, patterns) ==
    [k \in 1..(Len(names) * Len(patterns)) |->
        <<names[((k - 1) \div Len(patterns)) + 1], patterns[((k - 1) % Len(patterns)) + 1]>>]

\* for pattern in file_patterns: for name in name_variants
PatternOuter(names, patterns) ==
    [k \in 1..(Len(names) * Len(patterns)) |->
        <<names[((k - 1) % Len(names)) + 1], patterns[((k - 1) \div Len(names)) + 1]>>]

\* The loop over the candidates: the matches of the first candidate that has
\* any, {} when none has.
RECURSIVE FirstHit(_, _)
FirstHit(directory, candidates) ==
    IF candidates = <<>> THEN {}
    ELSE IF Glob(directory, candidates[1][1], candidates[1][2]) # {}
         THEN Glob(directory, candidates[1][1], candidates[1][2])
         ELSE FirstHit(directory, Tail(candidates))

\* corpus_prep.find_genome_file: what matches[0] can be, {} for None.
FindGenomeFile(directory, genome_name) ==
    FirstHit(directory, NameOuter(NameVariants(genome_name), DotPatterns))

\* The resolver of the package's write_genome_sizes.
SizeResolver(directory, genome_name) ==
    FirstHit(directory, PatternOuter(NameVariants(genome_name), DotPatterns))

\* The resolver of the script's write_genome_sizes: glob of name*pattern with
\* the lowercased name.
ScriptSizeResolver(directory, genome_name) ==
    FirstHit(directory, PatternOuter(<<genome_name>>, FilePatterns))

\* The unmasked lookup of GenomeObj.__init__: findfiles of name*pattern.
RECURSIVE ScriptFindUnmasked(_, _, _)
ScriptFindUnmasked(directory, genome_name, patterns) ==
    IF patterns = <<>> THEN {}
    ELSE IF Findfiles(genome_name, patterns[1], directory) # {}
         THEN Findfiles(genome_name, patterns[1], directory)
         ELSE ScriptFindUnmasked(directory, genome_name, Tail(patterns))

\* corpus_prep.find_split_mask_file: name*_sp.txt over the name variants.
FindSplitMaskFile(split_mask_dir, genome_name) ==
    FirstHit(split_mask_dir, NameOuter(NameVariants(genome_name), <<"_sp.txt">>))

\* The nested find_genome_file of the package's check_genome_files.
PackageHasFile(directory, genome_name) ==
    FirstHit(directory, NameOuter(NameVariants(genome_name), DotPatterns)) # {}

\* The script's check: any(fnmatch(file.lower(), pattern) ...) with the
\* lowercased genome name.
ScriptHasFile(directory, genome_name) ==
    \E file \in directory : \E k \in DOMAIN DotPatterns :
        Fnmatch(StrLower(file), StrLower(genome_name), DotPatterns[k])

HasFile(i, directory, genome_name) ==
    IF i = "script" THEN ScriptHasFile(directory, genome_name)
                    ELSE PackageHasFile(directory, genome_name)

\* One iteration of the loop of check_genome_files: FLAG stays as it is
\* unless a required file is not found.
RowFilesFound(i, row, masked, unmasked) ==
    IF row.genome_type = "both"
    THEN HasFile(i, masked, row.name) /\ HasFile(i, unmasked, row.name)
    ELSE HasFile(i, unmasked, row.name)

RECURSIVE CheckGenomeFiles(_, _, _, _)
CheckGenomeFiles(i, rows_left, masked, unmasked) ==
    IF rows_left = <<>> THEN TRUE
    ELSE LET rest_ok == CheckGenomeFiles(i, Tail(rows_left), masked, unmasked)
         IN  IF RowFilesFound(i, rows_left[1], masked, unmasked) THEN rest_ok ELSE FALSE

\* The files split_hardmask_genome reads: *.fa, *.fasta, *.gz, *.gzip.
SplitInputs(masked) ==
    Glob(masked, "", ".fa") \cup Glob(masked, "", ".fasta")
        \cup Glob(masked, "", ".gz") \cup Glob(masked, "", ".gzip")

\* The output name: the chained replace on the file's name (the directory
\* part of the joined path is taken to hold no ".fa").
SplitOutName(basename) ==
    StrReplace(StrReplace(StrReplace(StrReplace(basename,
        ".fa", "_sp.txt"), ".fasta", "_sp.txt"), ".fa.gz", "_sp.txt"), ".fasta.gz", "_sp.txt")

GenomeTypes == {"both", "unmasked"}

MetadataRows == [name : GenomeNames, genome_type : GenomeTypes]

\* The tables: the index holds every genome once, whatever its case.
Tables ==
    {t \in UNION {[1..n -> MetadataRows] : n \in 1..MaxGenomes} :
        \A i, j \in DOMAIN t : i # j => StrLower(t[i].name) # StrLower(t[j].name)}

Listings(catalogue) == {d \in SUBSET catalogue : Cardinality(d) <= MaxFiles}

OrNone(matches) == IF matches = {} THEN {NoFile} ELSE matches

\* genome_size_mb of a genome below and above the default split size.
GenomeSizesMB == {100, 600}

\* The sizes of the genomes of a table.  GenomeObj.__init__ of the script
\* resolves its files before any size is looked at, so one size stands for
\* all there.
SizesOf(implementation, t) ==
    IF implementation = "script" THEN {[i \in DOMAIN t |-> 100]}
    ELSE [DOMAIN t -> GenomeSizesMB]

FilesInit ==
    /\ fimpl \in {"script", "package"}
    /\ table \in Tables
    /\ genome_size_mb \in SizesOf(fimpl, table)
    /\ masked_dir \in Listings(MaskedCatalogue)
    /\ unmasked_dir \in Listings(UnmaskedCatalogue)
    /\ FLAG = FALSE /\ fi = 0 /\ cur_fasta = NoFile /\ sizes_out = "absent"
    /\ size_rows = <<>> /\ split_ran = FALSE /\ split_out = {}
    /\ found_unmasked = <<>> /\ found_split = <<>> /\ fpc = "check"
    /\ SplitIdle /\ SampleIdle /\ PlanIdle /\ WriteIdle /\ CorpusIdle /\ SizesIdle /\ CliIdle /\ MaskIdle /\ JudgeIdle /\ TokIdle

\* run_prepare_genome and the script's main, without the gate: the two
\* writers are called whatever the check returned.
AfterCheckUngated(flag) == "sizes"

\* run_prepare_genome and the script's main: the branch taken on the verdict.
AfterCheck(flag) == IF flag THEN "sizes" ELSE "refused"

CheckFiles ==
    /\ fpc = "check"
    /\ FLAG' = CheckGenomeFiles(fimpl, table, masked_dir, unmasked_dir)
    /\ fpc' = AfterCheck(FLAG')
    /\ UNCHANGED <<fimpl, table, genome_size_mb, masked_dir, unmasked_dir, fi, cur_fasta, sizes_out,
                   size_rows, split_ran, split_out, found_unmasked, found_split>>
    /\ UNCHANGED <<splitVars, sampleVars, planVars, writeVars, corpusVars, sizesVars, cliVars, maskVars, judgeVars, tokVars>>

\* write_genome_sizes opens genome_sizes.txt and prints the header.
OpenSizes ==
    /\ fpc = "sizes"
    /\ sizes_out' = "written" /\ fi' = 1 /\ fpc' = "rows"
    /\ UNCHANGED <<fimpl, table, genome_size_mb, masked_dir, unmasked_dir, FLAG, cur_fasta,
                   size_rows, split_ran, split_out, found_unmasked, found_split>>
    /\ UNCHANGED <<splitVars, sampleVars, planVars, writeVars, corpusVars, sizesVars, cliVars, maskVars, judgeVars, tokVars>>

SizeRow(genome, file) == [genome |-> genome, file |-> file]

\* One iteration of the package's loop: fasta_file = None, then the resolver;
\* a warning and continue when nothing matched.
PackageFileRow ==
    /\ fpc = "rows" /\ fimpl = "package" /\ fi <= Len(table)
    /\ \E f \in OrNone(SizeResolver(unmasked_dir, table[fi].name)) :
        /\ cur_fasta' = f
        /\ size_rows' = IF f = NoFile THEN size_rows
                        ELSE Append(size_rows, SizeRow(StrLower(table[fi].name), f))
    /\ fi' = fi + 1
    /\ UNCHANGED <<fimpl, table, genome_size_mb, masked_dir, unmasked_dir, FLAG, sizes_out,
                   split_ran, split_out, found_unmasked, found_split, fpc>>
    /\ UNCHANGED <<splitVars, sampleVars, planVars, writeVars, corpusVars, sizesVars, cliVars, maskVars, judgeVars, tokVars>>

\* What fasta_file names after the script's pattern loop: the first match of
\* this genome, the value left by an earlier iteration when nothing matched.
ScriptFastaAfterLoop(previous, matches) == IF matches = {} THEN {previous} ELSE matches

\* One iteration of the script's loop.
ScriptFileRow ==
    /\ fpc = "rows" /\ fimpl = "script" /\ fi <= Len(table)
    /\ \E f \in ScriptFastaAfterLoop(cur_fasta,
                    ScriptSizeResolver(unmasked_dir, StrLower(table[fi].name))) :
        /\ f # NoFile
        /\ cur_fasta' = f
        /\ size_rows' = Append(size_rows, SizeRow(StrLower(table[fi].name), f))
    /\ fi' = fi + 1
    /\ UNCHANGED <<fimpl, table, genome_size_mb, masked_dir, unmasked_dir, FLAG, sizes_out,
                   split_ran, split_out, found_unmasked, found_split, fpc>>
    /\ UNCHANGED <<splitVars, sampleVars, planVars, writeVars, corpusVars, sizesVars, cliVars, maskVars, judgeVars, tokVars>>

\* The script reads fasta_file before any iteration bound it.
ScriptFileRaises ==
    /\ fpc = "rows" /\ fimpl = "script" /\ fi <= Len(table)
    /\ ScriptFastaAfterLoop(cur_fasta,
            ScriptSizeResolver(unmasked_dir, StrLower(table[fi].name))) = {NoFile}
    /\ fpc' = "UnboundLocalError"
    /\ UNCHANGED <<fimpl, table, genome_size_mb, masked_dir, unmasked_dir, FLAG, fi, cur_fasta, sizes_out,
                   size_rows, split_ran, split_out, found_unmasked, found_split>>
    /\ UNCHANGED <<splitVars, sampleVars, planVars, writeVars, corpusVars, sizesVars, cliVars, maskVars, judgeVars, tokVars>>

FileRowsDone ==
    /\ fpc = "rows" /\ fi > Len(table)
    /\ fpc' = "split"
    /\ UNCHANGED <<fimpl, table, genome_size_mb, masked_dir, unmasked_dir, FLAG, fi, cur_fasta, sizes_out,
                   size_rows, split_ran, split_out, found_unmasked, found_split>>
    /\ UNCHANGED <<splitVars, sampleVars, planVars, writeVars, corpusVars, sizesVars, cliVars, maskVars, judgeVars, tokVars>>

\* split_hardmask_genome: one output per input file, named by SplitOutName.
\* The corpus stage starts after it.
SplitHardmaskGenome ==
    /\ fpc = "split"
    /\ split_ran' = TRUE
    /\ split_out' = {SplitOutName(f) : f \in SplitInputs(masked_dir)}
    /\ fi' = 1 /\ fpc' = "lookup"
    /\ UNCHANGED <<fimpl, table, genome_size_mb, masked_dir, unmasked_dir, FLAG, cur_fasta, sizes_out,
                   size_rows, found_unmasked, found_split>>
    /\ UNCHANGED <<splitVars, sampleVars, planVars, writeVars, corpusVars, sizesVars, cliVars, maskVars, judgeVars, tokVars>>

Found(genome, file) == [genome |-> genome, file |-> file]

\* process_both_types: find_split_mask_file is called in the else branch of
\* genome_size_mb < genome_split_size only.
LooksUpSplit(gtype, size_mb, genome_split_size) ==
    gtype = "both" /\ ~(size_mb < genome_split_size)

\* The package's corpus stage resolves the files of one genome of the table:
\* the split file of a 'both' genome at or above the split size, and the
\* unmasked file of every genome (process_unmasked_genome is called in every
\* branch).
PackageLookup ==
    /\ fpc = "lookup" /\ fimpl = "package" /\ fi <= Len(table)
    /\ \E u \in OrNone(FindGenomeFile(unmasked_dir, table[fi].name)) :
        found_unmasked' = Append(found_unmasked, Found(table[fi].name, u))
    /\ \E m \in OrNone(FindSplitMaskFile(split_out, table[fi].name)) :
        found_split' = IF LooksUpSplit(table[fi].genome_type, genome_size_mb[fi],
                                       DefaultSplitSizeMB)
                       THEN Append(found_split, Found(table[fi].name, m))
                       ELSE found_split
    /\ fi' = fi + 1
    /\ UNCHANGED <<fimpl, table, genome_size_mb, masked_dir, unmasked_dir, FLAG, cur_fasta, sizes_out,
                   size_rows, split_ran, split_out, fpc>>
    /\ UNCHANGED <<splitVars, sampleVars, planVars, writeVars, corpusVars, sizesVars, cliVars, maskVars, judgeVars, tokVars>>

\* genome_df.loc[genome_name, 'genome_type'] on the lowercased index.
TypeOf(genome_name) ==
    table[CHOOSE i \in DOMAIN table : StrLower(table[i].name) = genome_name].genome_type

\* GenomeObj.__init__ for one row of genome_sizes.txt.
ScriptLookup ==
    /\ fpc = "lookup" /\ fimpl = "script" /\ fi <= Len(size_rows)
    /\ \E u \in OrNone(ScriptFindUnmasked(unmasked_dir, size_rows[fi].genome, FilePatterns)) :
        found_unmasked' = Append(found_unmasked, Found(size_rows[fi].genome, u))
    /\ \E m \in OrNone(Findfiles(size_rows[fi].genome, "sp.txt", split_out)) :
        /\ TypeOf(size_rows[fi].genome) = "both" => m # NoFile
        /\ found_split' = IF TypeOf(size_rows[fi].genome) = "both"
                          THEN Append(found_split, Found(size_rows[fi].genome, m))
                          ELSE found_split
    /\ fi' = fi + 1
    /\ UNCHANGED <<fimpl, table, genome_size_mb, masked_dir, unmasked_dir, FLAG, cur_fasta, sizes_out,
                   size_rows, split_ran, split_out, fpc>>
    /\ UNCHANGED <<splitVars, sampleVars, planVars, writeVars, corpusVars, sizesVars, cliVars, maskVars, judgeVars, tokVars>>

\* SplitMaskPath[0] on an empty list.
ScriptLookupRaises ==
    /\ fpc = "lookup" /\ fimpl = "script" /\ fi <= Len(size_rows)
    /\ TypeOf(size_rows[fi].genome) = "both"
    /\ Findfiles(size_rows[fi].genome, "sp.txt", split_out) = {}
    /\ fpc' = "IndexError"
    /\ UNCHANGED <<fimpl, table, genome_size_mb, masked_dir, unmasked_dir, FLAG, fi, cur_fasta, sizes_out,
                   size_rows, split_ran, split_out, found_unmasked, found_split>>
    /\ UNCHANGED <<splitVars, sampleVars, planVars, writeVars, corpusVars, sizesVars, cliVars, maskVars, judgeVars, tokVars>>

LookupDone ==
    /\ fpc = "lookup"
    /\ fi > (IF fimpl = "script" THEN Len(size_rows) ELSE Len(table))
    /\ fpc' = "done"
    /\ UNCHANGED <<fimpl, table, genome_size_mb, masked_dir, unmasked_dir, FLAG, fi, cur_fasta, sizes_out,
                   size_rows, split_ran, split_out, found_unmasked, found_split>>
    /\ UNCHANGED <<splitVars, sampleVars, planVars, writeVars, corpusVars, sizesVars, cliVars, maskVars, judgeVars, tokVars>>

FilesNext ==
    \/ CheckFiles
    \/ OpenSizes
    \/ PackageFileRow
    \/ ScriptFileRow
    \/ ScriptFileRaises
    \/ FileRowsDone
    \/ SplitHardmaskGenome
    \/ PackageLookup
    \/ ScriptLookup
    \/ ScriptLookupRaises
    \/ LookupDone

SpecFiles == FilesInit /\ [][FilesNext]_vars

\* The row's required files exist, as the implementation that ran looks for them.
RequiredFilesExist(row) ==
    /\ HasFile(fimpl, unmasked_dir, row.name)
    /\ row.genome_type = "both" => HasFile(fimpl, masked_dir, row.name)

\* C22: check_genome_files returns true exactly when every 'both' genome has
\* a masked and an unmasked file and every other genome an unmasked file;
\* genome_sizes.txt and the split files are written only after it returned
\* true, and when it returned false neither is produced.
C22_CheckGatesStageA ==
    /\ fpc \notin {"idle", "check"} =>
           (FLAG <=> \A i \in DOMAIN table : RequiredFilesExist(table[i]))
    /\ (sizes_out = "written" \/ split_ran \/ split_out # {}) =>
           (fpc \notin {"idle", "check"} /\ FLAG)
    /\ (fpc \notin {"idle", "check"} /\ ~FLAG) =>
           (fpc = "refused" /\ sizes_out = "absent" /\ ~split_ran /\ split_out = {})

C22_Witness ==
    /\ fpc = "refused" /\ Len(table) = 2
    /\ RequiredFilesExist(table[1])
    /\ table[2].genome_type = "both"
    /\ HasFile(fimpl, unmasked_dir, table[2].name)
    /\ ~HasFile(fimpl, masked_dir, table[2].name)

\* The genome's name as the metadata table writes it.
TableName(genome_name) ==
    table[CHOOSE i \in DOMAIN table : StrLower(table[i].name) = genome_name].name

\* file is a match of the earliest candidate that has any match, in the order
\* name variants (outer) by extension patterns (inner); NoFile when none has.
EarliestCandidateMatch(directory, genome_name, file) ==
    LET candidates == NameOuter(NameVariants(genome_name), DotPatterns)
        hits == {k \in DOMAIN candidates :
                    Glob(directory, candidates[k][1], candidates[k][2]) # {}}
    IN  IF hits = {} THEN file = NoFile
        ELSE \E k \in hits :
                /\ \A j \in hits : k <= j
                /\ file \in Glob(directory, candidates[k][1], candidates[k][2])

\* C23: every file the package resolves for a genome, in the corpus stage
\* (find_genome_file) and in the size stage (write_genome_sizes), is a match
\* of the earliest candidate in the order name variants [original, lower,
\* title, upper] (outer) by patterns [.fa, .fasta, .fa.gz, .fasta.gz] (inner).
C23_FirstMatchInFixedOrder ==
    fimpl = "package" =>
        /\ \A i \in DOMAIN found_unmasked :
               EarliestCandidateMatch(unmasked_dir, found_unmasked[i].genome,
                                      found_unmasked[i].file)
        /\ \A i \in DOMAIN size_rows :
               EarliestCandidateMatch(unmasked_dir, TableName(size_rows[i].genome),
                                      size_rows[i].file)

\* C25: the script's and the package's check_genome_files return the same
\* verdict on the same table and directory listings.
C25_ChecksAgree ==
    fpc \notin {"idle", "check"} =>
        /\ FLAG = CheckGenomeFiles("script", table, masked_dir, unmasked_dir)
        /\ FLAG = CheckGenomeFiles("package", table, masked_dir, unmasked_dir)

\* <base>_sp.txt for a file <base>.fa, <base>.fasta, <base>.fa.gz or
\* <base>.fasta.gz; no name for any other file.
BaseSplitNames(file) ==
    {SubSeq(file, 1, Len(file) - Len(DotPatterns[k])) \o "_sp.txt" :
        k \in {j \in DOMAIN DotPatterns : EndsWith(file, DotPatterns[j])}}

\* C27: split_hardmask_genome names the output of <base>.fa, <base>.fasta,
\* <base>.fa.gz or <base>.fasta.gz <base>_sp.txt, and the corpus stage's
\* split-mask lookup resolves such a file for every 'both' genome.
C27_SplitFileNamedAndResolved ==
    split_ran =>
        /\ \A f \in masked_dir : BaseSplitNames(f) \subseteq split_out
        /\ \A i \in DOMAIN found_split :
               found_split[i].file \in UNION {BaseSplitNames(f) : f \in masked_dir}
        /\ fpc # "IndexError"

\* C28: every row of genome_sizes.txt holds the statistics of a file that the
\* resolver matched for that row's genome.
C28_RowFromOwnFile ==
    \A i \in DOMAIN size_rows :
        size_rows[i].file \in
            (IF fimpl = "script"
             THEN ScriptSizeResolver(unmasked_dir, size_rows[i].genome)
             ELSE SizeResolver(unmasked_dir, TableName(size_rows[i].genome)))

(***************************************************************************)
(* split_hardmask_genome on one masked file: every record is uppercased by *)
(* pyfastx (uppercase=True), split at its runs of N, and its non-empty     *)
(* pieces are printed one per line.                                        *)
(***************************************************************************)

MaxMaskLen == 4

MaxMaskRecords == 2

MaskAlphabet == {"a", "N"}

\* The strings over MaskAlphabet of length n.
RECURSIVE MaskStringsOfLen(_)
MaskStringsOfLen(n) ==
    IF n = 0 THEN {""}
    ELSE {c \o str : c \in MaskAlphabet, str \in MaskStringsOfLen(n - 1)}

MaskRecords == UNION {MaskStringsOfLen(n) : n \in 0..MaxMaskLen}

MaskFiles == UNION {[1..n -> MaskRecords] : n \in 1..MaxMaskRecords}

\* re.split(r'[N]+', sequence): the pieces between the runs of N, the empty
\* pieces at the ends included.
RECURSIVE ReSplitFrom(_, _, _)
ReSplitFrom(str, piece, in_run) ==
    IF str = "" THEN <<piece>>
    ELSE IF CharAt(str, 1) = "N"
         THEN IF in_run THEN ReSplitFrom(Rest(str), piece, TRUE)
                        ELSE <<piece>> \o ReSplitFrom(Rest(str), "", TRUE)
         ELSE ReSplitFrom(Rest(str), piece \o CharAt(str, 1), FALSE)

ReSplitN(str) == ReSplitFrom(str, "", FALSE)

\* The loop body without its test: every piece is printed.
PrintsEveryPiece(seq_in_list) == TRUE

\* if seq_in_list:
PrintsPiece(seq_in_list) == seq_in_list # ""

OutLine(record, line) == [record |-> record, line |-> line]

MaskInit ==
    /\ fa \in MaskFiles
    /\ seq_no = 1 /\ hseqlist = <<>> /\ piece_no = 0 /\ outio = <<>> /\ hpc = "record"
    /\ SplitIdle /\ SampleIdle /\ PlanIdle /\ WriteIdle /\ CorpusIdle /\ SizesIdle /\ CliIdle /\ FilesIdle /\ JudgeIdle /\ TokIdle

\* sequence = seq.seq; seqlist = re.split(r'[N]+', sequence)
MaskSplitRecord ==
    /\ hpc = "record" /\ seq_no <= Len(fa)
    /\ hseqlist' = ReSplitN(StrUpper(fa[seq_no]))
    /\ piece_no' = 1 /\ hpc' = "pieces"
    /\ UNCHANGED <<fa, seq_no, outio>>
    /\ UNCHANGED <<splitVars, sampleVars, planVars, writeVars, corpusVars, sizesVars, cliVars, filesVars, judgeVars, tokVars>>

\* One iteration of "for seq_in_list in seqlist".
MaskPrintPiece ==
    /\ hpc = "pieces" /\ piece_no <= Len(hseqlist)
    /\ outio' = IF PrintsPiece(hseqlist[piece_no])
                THEN Append(outio, OutLine(seq_no, hseqlist[piece_no]))
                ELSE outio
    /\ piece_no' = piece_no + 1
    /\ UNCHANGED <<fa, seq_no, hseqlist, hpc>>
    /\ UNCHANGED <<splitVars, sampleVars, planVars, writeVars, corpusVars, sizesVars, cliVars, filesVars, judgeVars, tokVars>>

MaskNextRecord ==
    /\ hpc = "pieces" /\ piece_no > Len(hseqlist)
    /\ seq_no' = seq_no + 1 /\ hpc' = "record"
    /\ UNCHANGED <<fa, hseqlist, piece_no, outio>>
    /\ UNCHANGED <<splitVars, sampleVars, planVars, writeVars, corpusVars, sizesVars, cliVars, filesVars, judgeVars, tokVars>>

\* The with block ends: the output is closed.
MaskClose ==
    /\ hpc = "record" /\ seq_no > Len(fa)
    /\ hpc' = "closed"
    /\ UNCHANGED <<fa, seq_no, hseqlist, piece_no, outio>>
    /\ UNCHANGED <<splitVars, sampleVars, planVars, writeVars, corpusVars, sizesVars, cliVars, filesVars, judgeVars, tokVars>>

MaskNext ==
    \/ MaskSplitRecord
    \/ MaskPrintPiece
    \/ MaskNextRecord
    \/ MaskClose

SpecMask == MaskInit /\ [][MaskNext]_vars

\* The maximal N-free runs of str, as <<first, last>> positions.
MaximalRuns(str) ==
    {run \in (1..Len(str)) \X (1..Len(str)) :
        /\ run[1] <= run[2]
        /\ \A k \in run[1]..run[2] : CharAt(str, k) # "N"
        /\ run[1] = 1 \/ CharAt(str, run[1] - 1) = "N"
        /\ run[2] = Len(str) \/ CharAt(str, run[2] + 1) = "N"}

LinesOfRecord(record) == SelectSeq(outio, LAMBDA o : o.record = record)

RECURSIVE JoinLines(_)
JoinLines(ls) == IF ls = <<>> THEN "" ELSE ls[1].line \o JoinLines(Tail(ls))

\* C24: once the output is closed, the lines of every record are exactly its
\* maximal N-free runs, in order, records in file order; no line is empty or
\* holds an N, and the lines of a record concatenate to the record's
\* (uppercased) sequence with every N removed.
C24_LinesAreMaximalNFreeRuns ==
    hpc = "closed" =>
        /\ \A k \in 1..(Len(outio) - 1) : outio[k].record <= outio[k + 1].record
        /\ \A k \in DOMAIN outio :
               /\ outio[k].line # ""
               /\ \A p \in 1..Len(outio[k].line) : CharAt(outio[k].line, p) # "N"
        /\ \A r \in DOMAIN fa :
               LET sequence_r == StrUpper(fa[r])
                   runs == MaximalRuns(sequence_r)
                   ls == LinesOfRecord(r)
               IN  /\ Len(ls) = Cardinality(runs)
                   /\ \A k \in DOMAIN ls : \E run \in runs :
                          /\ ls[k].line = SubSeq(sequence_r, run[1], run[2])
                          /\ Cardinality({q \in runs : q[1] < run[1]}) = k - 1
                   /\ JoinLines(ls) = StrReplace(sequence_r, "N", "")

C24_Witness ==
    /\ hpc = "closed" /\ Len(fa) = 2
    /\ fa[1] = "aNNa" /\ fa[2] = "NaNN"
    /\ outio = <<OutLine(1, "A"), OutLine(1, "A"), OutLine(2, "A")>>

(***************************************************************************)
(* The script's corpus stage at genome scale: judge_and_generate chooses   *)
(* the getters from the sizes GenomeObj.__init__ read, every getter builds *)
(* its seqlist with split_sequence, and the two sampling getters draw from *)
(* it until total_len is reached.  Sequences are run-length texts; every   *)
(* record and line of the catalogue is made of runs of one character that  *)
(* runs of at least HardBreakRun N keep apart.                             *)
(***************************************************************************)

JudgeSplitSizes == {500, 1000}

UnmaskedContents ==
    { <<<<Run("A", 400000000)>>>>,
      <<<<Run("A", 600000000)>>>>,
      <<<<Run("N", 600000000)>>>>,
      <<<<Run("A", 200000000), Run("N", 400000000)>>>>,
      <<<<Run("A", 300000000)>>, <<Run("R", 300000000)>>>>,
      <<<<Run("A", 1200000000)>>>>,
      <<<<Run("A", 500005000)>>>>,
      <<<<Run("A", 500005001)>>>> }

MaskedContents ==
    { <<<<Run("A", 100000000)>>>>,
      <<<<Run("A", 250000000)>>>>,
      <<<<Run("A", 300000000)>>, <<Run("A", 300000000)>>>>,
      <<<<Run("R", 300000000)>>>>,
      <<<<Run("A", 249999999)>>>> }

JudgeGenomes ==
    [genome_type : {"both"}, unmasked : UnmaskedContents, masked : MaskedContents]
        \cup [genome_type : {"unmasked"}, unmasked : UnmaskedContents, masked : {<<>>}]

RECURSIVE TotalLen(_)
TotalLen(ts) == IF ts = <<>> THEN 0 ELSE TextLen(ts[1]) + TotalLen(Tail(ts))

\* round(length / 1000000, 2), in hundredths of a MB: the values the call can
\* return.  The quotient is rounded to the nearest hundredth; for a length
\* half way between two hundredths the side taken is that of the double
\* nearest to the quotient, and either neighbour stands for it.
Round2(length) ==
    LET unit == ScriptBytesPerMB \div SizeScale
        q == length \div unit
        r == length % unit
    IN  IF 2 * r < unit THEN {q}
        ELSE IF 2 * r > unit THEN {q + 1}
        ELSE {q, q + 1}

SizeMB(ts) == Round2(TotalLen(ts))

\* re.sub(pattern, "\n", sequence).split("\n"): the runs of the record that
\* are not a run of HardBreakRun or more N.
RECURSIVE UnmaskedParts(_)
UnmaskedParts(fasta_records) ==
    IF fasta_records = <<>> THEN <<>>
    ELSE SelectSeq(fasta_records[1], LAMBDA run : ~(run.c = "N" /\ run.n >= HardBreakRun))
             \o UnmaskedParts(Tail(fasta_records))

\* One line of the split file per entry: its single run.
RECURSIVE MaskedParts(_)
MaskedParts(file_lines) ==
    IF file_lines = <<>> THEN <<>> ELSE file_lines[1] \o MaskedParts(Tail(file_lines))

\* The total length split_sequence can return for a run of one character: a
\* run of a base is kept but for a last slice shorter than min_length, every
\* slice of a run of N or of an invalid character is rejected.
PureRunTotals(run, minlen) ==
    IF run.c \in ValidBases \ {"N"} /\ run.n >= minlen
    THEN {run.n - d : d \in {e \in 0..(minlen - 1) : e = 0 \/ run.n - e >= minlen}}
    ELSE {0}

\* seqlist.extend(...) over the parts: the totals the seqlist can have.
RECURSIVE SeqlistTotals(_)
SeqlistTotals(parts) ==
    IF parts = <<>> THEN {0}
    ELSE {a + b : a \in PureRunTotals(parts[1], MinChunkLen), b \in SeqlistTotals(Tail(parts))}

PartsRead(fn, genome) ==
    IF fn \in {"get_SplitHardMask", "get_all_HardMask"}
    THEN MaskedParts(genome.masked) ELSE UnmaskedParts(genome.unmasked)

JudgeInit ==
    /\ jgenome \in JudgeGenomes
    /\ jsplit_size \in JudgeSplitSizes
    /\ jcalls = <<>> /\ getter = <<>> /\ allseqlen = NoneMb /\ jpc = "judge"
    /\ SplitIdle /\ SampleIdle /\ PlanIdle /\ WriteIdle /\ CorpusIdle /\ SizesIdle /\ CliIdle /\ FilesIdle /\ MaskIdle /\ TokIdle

\* judge_and_generate on the sizes of the genome's files.
Judge ==
    /\ jpc = "judge"
    /\ \E um \in SizeMB(jgenome.unmasked), mm \in SizeMB(jgenome.masked) :
        LET plan == judge_and_generate(jgenome.genome_type, um, mm, jsplit_size)
        IN  /\ jcalls' = plan.calls
            /\ jpc' = IF plan.pc = "returned" THEN "calls" ELSE plan.pc
    /\ UNCHANGED <<jgenome, jsplit_size, getter, allseqlen>>
    /\ UNCHANGED <<splitVars, sampleVars, planVars, writeVars, corpusVars, sizesVars, cliVars, filesVars, maskVars, tokVars>>

\* A getter builds its seqlist; get_all_HardMask and get_all_UnMask return it,
\* the sampling getters go on to draw from it.
BuildSeqlist ==
    /\ jpc = "calls" /\ jcalls # <<>>
    /\ getter' = Head(jcalls)
    /\ jcalls' = Tail(jcalls)
    /\ allseqlen' \in SeqlistTotals(PartsRead(Head(jcalls).fn, jgenome))
    /\ jpc' = IF Head(jcalls).fn \in SamplingGetters THEN "sample" ELSE "calls"
    /\ UNCHANGED <<jgenome, jsplit_size>>
    /\ UNCHANGED <<splitVars, sampleVars, planVars, writeVars, corpusVars, sizesVars, cliVars, filesVars, maskVars, tokVars>>

\* while sllength < total_len ends: the chunks reach total_len.
SamplerReturns ==
    /\ jpc = "sample" /\ allseqlen >= getter.arg
    /\ jpc' = "calls"
    /\ UNCHANGED <<jgenome, jsplit_size, jcalls, getter, allseqlen>>
    /\ UNCHANGED <<splitVars, sampleVars, planVars, writeVars, corpusVars, sizesVars, cliVars, filesVars, maskVars, tokVars>>

\* Every chunk was drawn and sllength is still below total_len:
\* randomlist.pop() on the empty list.
SamplerExhausts ==
    /\ jpc = "sample" /\ allseqlen < getter.arg
    /\ jpc' = "IndexError"
    /\ UNCHANGED <<jgenome, jsplit_size, jcalls, getter, allseqlen>>
    /\ UNCHANGED <<splitVars, sampleVars, planVars, writeVars, corpusVars, sizesVars, cliVars, filesVars, maskVars, tokVars>>

JudgeReturn ==
    /\ jpc = "calls" /\ jcalls = <<>>
    /\ jpc' = "returned"
    /\ UNCHANGED <<jgenome, jsplit_size, jcalls, getter, allseqlen>>
    /\ UNCHANGED <<splitVars, sampleVars, planVars, writeVars, corpusVars, sizesVars, cliVars, filesVars, maskVars, tokVars>>

JudgeNext ==
    \/ Judge
    \/ BuildSeqlist
    \/ SamplerReturns
    \/ SamplerExhausts
    \/ JudgeReturn

SpecJudge == JudgeInit /\ [][JudgeNext]_vars

\* C26: whenever a sampling getter starts to draw, the chunks of its seqlist
\* have a total length of at least its target.
C26_SamplerPreconditionHolds ==
    jpc = "sample" => allseqlen >= getter.arg

(***************************************************************************)
(* update_tokenizer_files: the ids it gives the special tokens in          *)
(* tokenizer_config.json (added_tokens_decoder), in tokenizer.json         *)
(* (added_tokens) and in the vocabulary (model.vocab); and the package's   *)
(* generate_all_config_files, which writes the same files.                 *)
(***************************************************************************)

MaxVocab == 3

MaxSpecial == 2

MaxTokenId == 3

VocabTokens == {"A", "C", "AC", "<unk>"}

SpecialContents == {"<|endoftext|>", "<|padding|>", "<unk>"}

Injective(q) == \A i, j \in DOMAIN q : i # j => q[i] # q[j]

\* vocab.json: a JSON object, its keys are distinct.
Vocabs == {v \in UNION {[1..n -> VocabTokens] : n \in 0..MaxVocab} : Injective(v)}

Special(content, id) == [content |-> content, id |-> id]

\* The special-token file: a JSON object of token -> id.
SpecialTokenFiles ==
    {f \in UNION {[1..n -> [content : SpecialContents, id : 0..MaxTokenId]] :
                    n \in 1..MaxSpecial} :
        \A i, j \in DOMAIN f : i # j => f[i].content # f[j].content}

\* The default of lines 52-55.
DefaultSpecialToken == <<Special("<|endoftext|>", 0), Special("<|padding|>", 1)>>

Digits == "0123456789"

\* str(i) of a non-negative integer.
RECURSIVE Str(_)
Str(i) == IF i < 10 THEN CharAt(Digits, i + 1)
          ELSE Str(i \div 10) \o CharAt(Digits, (i % 10) + 1)

\* The integer a decimal string spells.
RECURSIVE IntOf(_)
IntOf(str) ==
    IF str = "" THEN 0
    ELSE 10 * IntOf(SubSeq(str, 1, Len(str) - 1))
         + (IndexIn(Digits, CharAt(str, Len(str))) - 1)

\* v.startswith("<")
StartsWithLt(v) == Len(v) >= 1 /\ CharAt(v, 1) = "<"

\* The tokens of vocab that the first loop keeps, in order.
RegularTokens(v) == SelectSeq(v, LAMBDA t : ~StartsWithLt(t))

PositionIn(q, x) == CHOOSE i \in DOMAIN q : q[i] = x

Contents(specials) == {specials[i].content : i \in DOMAIN specials}

PositionOfContent(specials, content) ==
    CHOOSE i \in DOMAIN specials : specials[i].content = content

\* Lines 105-115: the regular tokens are numbered from 0 in order, then the
\* special tokens take index + i, overwriting an entry of the same name.
VocabInfo(v, specials) ==
    [t \in {RegularTokens(v)[i] : i \in DOMAIN RegularTokens(v)} \cup Contents(specials) |->
        IF t \in Contents(specials)
        THEN (PositionOfContent(specials, t) - 1) + Len(RegularTokens(v))
        ELSE PositionIn(RegularTokens(v), t) - 1]

\* Lines 63-71: the key is str(i) of the enumeration.
AddedTokensDecoder(specials) ==
    [i \in DOMAIN specials |-> [key |-> Str(i - 1), content |-> specials[i].content]]

\* Lines 78-88: the id is special_token[v].
AddedTokens(specials) ==
    [i \in DOMAIN specials |-> [id |-> specials[i].id, content |-> specials[i].content]]

TokInit ==
    /\ vocab \in Vocabs
    /\ special_token_file \in SpecialTokenFiles \cup {<<>>}
    /\ special_token = <<>> /\ added_tokens_decoder = <<>> /\ added_tokens = <<>>
    /\ vocab_info = <<>> /\ written_files = {} /\ tpc = "load"
    /\ SplitIdle /\ SampleIdle /\ PlanIdle /\ WriteIdle /\ CorpusIdle /\ SizesIdle /\ CliIdle /\ FilesIdle /\ MaskIdle /\ JudgeIdle

\* if os.path.exists(special_token_file): ... else: the default.
LoadSpecialToken ==
    /\ tpc = "load"
    /\ special_token' = IF special_token_file = <<>> THEN DefaultSpecialToken
                        ELSE special_token_file
    /\ tpc' = "decoder"
    /\ UNCHANGED <<vocab, special_token_file, added_tokens_decoder, added_tokens,
                   vocab_info, written_files>>
    /\ UNCHANGED <<splitVars, sampleVars, planVars, writeVars, corpusVars, sizesVars, cliVars, filesVars, maskVars, judgeVars>>

BuildDecoder ==
    /\ tpc = "decoder"
    /\ added_tokens_decoder' = AddedTokensDecoder(special_token)
    /\ tpc' = "added"
    /\ UNCHANGED <<vocab, special_token_file, special_token, added_tokens,
                   vocab_info, written_files>>
    /\ UNCHANGED <<splitVars, sampleVars, planVars, writeVars, corpusVars, sizesVars, cliVars, filesVars, maskVars, judgeVars>>

BuildAddedTokens ==
    /\ tpc = "added"
    /\ added_tokens' = AddedTokens(special_token)
    /\ tpc' = "vocab"
    /\ UNCHANGED <<vocab, special_token_file, special_token, added_tokens_decoder,
                   vocab_info, written_files>>
    /\ UNCHANGED <<splitVars, sampleVars, planVars, writeVars, corpusVars, sizesVars, cliVars, filesVars, maskVars, judgeVars>>

BuildVocab ==
    /\ tpc = "vocab"
    /\ vocab_info' = VocabInfo(vocab, special_token)
    /\ tpc' = "write"
    /\ UNCHANGED <<vocab, special_token_file, special_token, added_tokens_decoder,
                   added_tokens, written_files>>
    /\ UNCHANGED <<splitVars, sampleVars, planVars, writeVars, corpusVars, sizesVars, cliVars, filesVars, maskVars, judgeVars>>

\* json.dump of the two files.
WriteTokenizerFiles ==
    /\ tpc = "write"
    /\ written_files' = {"tokenizer_config.json", "tokenizer.json"}
    /\ tpc' = "written"
    /\ UNCHANGED <<vocab, special_token_file, special_token, added_tokens_decoder,
                   added_tokens, vocab_info>>
    /\ UNCHANGED <<splitVars, sampleVars, planVars, writeVars, corpusVars, sizesVars, cliVars, filesVars, maskVars, judgeVars>>

\* ---- the package's generate_all_config_files (config_gen.py) ----
\* Its three functions are public and write into the same output directory
\* as update_tokenizer_files; each is called on a fresh directory, after
\* update_tokenizer_files wrote its files, or after the function before it
\* in generate_all_config_files, whatever that one returned (success &= ...).

\* The pieces of the trained SentencePiece model, by id.
ModelPieces == {<<"<unk>", "<s>", "</s>", "A">>, <<"<unk>", "A", "C", "AC">>}

\* The names extract_vocab_and_merges leaves out of vocab.json.
SkippedPieces == {"<unk>", "<s>", "</s>", "<pad>"}

\* create_default_tokenizer_data: no vocabulary entry, no added token.
DefaultTokenizerData == [vocab |-> <<>>, added_tokens |-> <<>>, unk_token |-> "<unk>"]

\* The example tokenizer file: absent (the default structure is used) or a
\* tokenizer.json of another model.
ExampleTokenizerFiles ==
    {DefaultTokenizerData,
     [vocab |-> [t \in {"old"} |-> 9],
      added_tokens |-> <<[id |-> 9, content |-> "old"]>>,
      unk_token |-> "<unk>"]}

\* The added_tokens_decoder of the example configuration file: absent from
\* create_default_config, the entries of another model otherwise.
ExampleConfigDecoders == {<<>>, <<[key |-> "9", content |-> "old"]>>}

\* special_tokens_map of update_special_tokens_in_tokenizer: the fixed ids.
SpecialTokensMap(token_name) ==
    IF token_name = "<s>" THEN 1 ELSE IF token_name = "</s>" THEN 2 ELSE 0

\* tokenizer_data["model"]["unk_token"] after the first statement.
UnkToken(tokenizer_data, specials) ==
    IF "unk_token" \in Contents(specials)
    THEN specials[PositionOfContent(specials, "unk_token")].id
    ELSE tokenizer_data.unk_token

\* update_special_tokens_in_tokenizer: added_tokens is rebuilt from the three
\* names, each with its fixed id, whatever id the special-token file gives.
UpdateSpecialTokensInTokenizer(tokenizer_data, specials) ==
    LET names == SelectSeq(<<"<s>", "</s>", "<unk>">>,
                           LAMBDA n : n \in Contents(specials)
                                      \/ UnkToken(tokenizer_data, specials) = n)
    IN  [i \in DOMAIN names |-> [id |-> SpecialTokensMap(names[i]), content |-> names[i]]]

\* extract_vocab_and_merges: vocab.json holds the pieces of the model but the
\* four special names.
ExtractVocabAndMerges ==
    /\ tpc \in {"load", "written"}
    /\ \E pieces \in ModelPieces, loaded \in BOOLEAN :
        IF loaded
        THEN /\ vocab' = SelectSeq(pieces, LAMBDA piece : piece \notin SkippedPieces)
             /\ written_files' = written_files \cup {"vocab.json", "merges.txt"}
             /\ tpc' = "extracted"
        ELSE vocab' = vocab /\ written_files' = written_files /\ tpc' = "extract_failed"
    /\ UNCHANGED <<special_token_file, special_token, added_tokens_decoder,
                   added_tokens, vocab_info>>
    /\ UNCHANGED <<splitVars, sampleVars, planVars, writeVars, corpusVars, sizesVars, cliVars, filesVars, maskVars, judgeVars>>

\* generate_tokenizer_config: tokenizer_config.json is the example (or the
\* default) configuration with the fields of lines 93-118 set; an exception
\* (the model does not load, the example path is None) returns False before
\* anything is written.
GenerateTokenizerConfig ==
    /\ tpc \in {"load", "written", "extracted", "extract_failed"}
    /\ \E decoder \in ExampleConfigDecoders, loaded \in BOOLEAN :
        IF loaded
        THEN /\ added_tokens_decoder' = decoder
             /\ written_files' = written_files \cup {"tokenizer_config.json"}
             /\ tpc' = "config_written"
        ELSE /\ added_tokens_decoder' = added_tokens_decoder
             /\ written_files' = written_files /\ tpc' = "config_failed"
    /\ UNCHANGED <<vocab, special_token_file, special_token, added_tokens, vocab_info>>
    /\ UNCHANGED <<splitVars, sampleVars, planVars, writeVars, corpusVars, sizesVars, cliVars, filesVars, maskVars, judgeVars>>

\* generate_tokenizer_json: tokenizer.json is the example (or the default)
\* structure, its added_tokens rebuilt when the special-token file exists;
\* model.vocab is the example's.  An exception (the example path is None)
\* returns False before anything is written.
GenerateTokenizerJson ==
    /\ tpc \in {"load", "written", "config_written", "config_failed"}
    /\ \E tokenizer_data \in ExampleTokenizerFiles, readable \in BOOLEAN :
        IF readable
        THEN /\ vocab_info' = tokenizer_data.vocab
             /\ added_tokens' =
                    IF special_token_file # <<>>
                    THEN UpdateSpecialTokensInTokenizer(tokenizer_data, special_token_file)
                    ELSE tokenizer_data.added_tokens
             /\ written_files' = written_files \cup {"tokenizer.json"}
             /\ tpc' = "json_written"
        ELSE /\ vocab_info' = vocab_info /\ added_tokens' = added_tokens
             /\ written_files' = written_files /\ tpc' = "json_failed"
    /\ UNCHANGED <<vocab, special_token_file, special_token, added_tokens_decoder>>
    /\ UNCHANGED <<splitVars, sampleVars, planVars, writeVars, corpusVars, sizesVars, cliVars, filesVars, maskVars, judgeVars>>

TokNext ==
    \/ LoadSpecialToken
    \/ BuildDecoder
    \/ BuildAddedTokens
    \/ BuildVocab
    \/ WriteTokenizerFiles
    \/ ExtractVocabAndMerges
    \/ GenerateTokenizerConfig
    \/ GenerateTokenizerJson

SpecTok == TokInit /\ [][TokNext]_vars

\* C30: in the written files every special token has one id: its id in
\* added_tokens equals its id in model.vocab and the key of its entry in
\* added_tokens_decoder; and no two entries of model.vocab share an id.
C30_OneIdPerSpecialToken ==
    tpc = "written" =>
        /\ \A i \in DOMAIN added_tokens :
               /\ vocab_info[added_tokens[i].content] = added_tokens[i].id
               /\ \E k \in DOMAIN added_tokens_decoder :
                      /\ added_tokens_decoder[k].content = added_tokens[i].content
                      /\ IntOf(added_tokens_decoder[k].key) = added_tokens[i].id
        /\ \A t, u \in DOMAIN vocab_info : t # u => vocab_info[t] # vocab_info[u]

\* C29: with 1 <= min_length <= max_length split_sequence returns: every
\* iteration of the loop moves the cursor forward, the loop makes at most
\* len(sequence) iterations, and the call reaches its return.
C29_SplitTerminates ==
    /\ [](spc # "idle" => (1 <= min_length /\ min_length <= max_length
                            /\ Len(taken) <= Len(sequence)))
    /\ [][taken' # taken => s' > s]_vars
    /\ <>(spc = "returned")

\* The bound is met: a sequence of three characters taken one at a time.
C29_Witness ==
    /\ spc = "returned" /\ Len(sequence) = 3 /\ Len(taken) = 3
    /\ s = 3

====
